---- MODULE Spec2Model ----
(***************************************************************************)
(* Conversation State & Ambiguity Resolution Engine of the personal agent: *)
(* the State Manager (conversation/state.py), the Dialogue Act Recognizer  *)
(* (conversation/dialogue_act.py), the Ambiguity Detector                  *)
(* (conversation/ambiguity_detector.py), the Question Generator            *)
(* (conversation/question_generator.py), the Response Generator            *)
(* (conversation/response_generator.py), the Enhanced Interface            *)
(* (conversation/interface.py) and the Agent that drives it                *)
(* (core/agent.py, core/response_processor.py, conversation/manager.py).   *)
(*                                                                         *)
(* Strings.  A user text is a record [toks, cap]: toks is the sequence of  *)
(* its tokens (lower-case words made of letters only, and the punctuation  *)
(* marks "?", "." and "!"), cap tells whether the first letter of the      *)
(* text is upper case.  The text is the tokens joined by one space, a      *)
(* punctuation mark being attached to the token before it.  Texts carry no *)
(* leading or trailing white space; the blank text is the empty sequence.  *)
(* Responses are TLA+ strings.  Confidences are integers in units of       *)
(* 10^-6, the inexact IEEE-754 sums being kept one unit off.               *)
(***************************************************************************)
EXTENDS Integers, Sequences, FiniteSets, TLC

(***************************************************************************)
(* Bounds of the model.                                                    *)
(***************************************************************************)
MaxOps == 3
MaxAccepted == 11
MaxResets == 1
MaxAsked == 5

(***************************************************************************)
(* conversation/state.py: the two enumerations (by their string values).   *)
(***************************************************************************)
INITIAL == "initial"
GREETING == "greeting"
IN_PROGRESS == "in_progress"
ASKING_CLARIFICATION == "asking_clarification"
PROVIDING_INFORMATION == "providing_information"
SEEKING_CONFIRMATION == "seeking_confirmation"
CLOSING == "closing"
ERROR == "error"

ConversationState ==
  {INITIAL, GREETING, IN_PROGRESS, ASKING_CLARIFICATION,
   PROVIDING_INFORMATION, SEEKING_CONFIRMATION, CLOSING, ERROR}

ActGREETING == "greeting"
ActQUESTION == "question"
ActSTATEMENT == "statement"
ActREQUEST == "request"
ActCONFIRMATION == "confirmation"
ActCLARIFICATION == "clarification"
ActACKNOWLEDGMENT == "acknowledgment"
ActCLOSING == "closing"
ActERROR == "error"

DialogueAct ==
  {ActGREETING, ActQUESTION, ActSTATEMENT, ActREQUEST, ActCONFIRMATION,
   ActCLARIFICATION, ActACKNOWLEDGMENT, ActCLOSING, ActERROR}

max_history_length == 10

\* interface.py: self.ambiguity_threshold = 0.6, in millionths
ambiguity_threshold == 600000

(***************************************************************************)
(* The blank text, the default of the string fields of the context.        *)
(***************************************************************************)
EmptyText == [toks |-> <<>>, cap |-> FALSE]

(***************************************************************************)
(* ConversationContext(user_id, conversation_id) with the dataclass        *)
(* defaults; created_at and updated_at come from two successive calls of   *)
(* datetime.now(), the clock reading being `now` before the construction.  *)
(***************************************************************************)
ConversationContext(user_id, conversation_id, now) ==
  [user_id |-> user_id,
   conversation_id |-> conversation_id,
   state |-> INITIAL,
   previous_state |-> INITIAL,
   dialogue_act |-> ActGREETING,
   topic |-> "",
   entities |-> <<>>,
   user_intent |-> "",
   last_user_input |-> EmptyText,
   last_agent_response |-> "",
   turn_count |-> 0,
   created_at |-> now + 1,
   updated_at |-> now + 2,
   metadata |-> <<>>]

(***************************************************************************)
(* StateTransition(from_state, to_state, trigger), timestamp from          *)
(* datetime.now().                                                         *)
(***************************************************************************)
StateTransition(from_state, to_state, trigger, timestamp) ==
  [from_state |-> from_state, to_state |-> to_state,
   trigger |-> trigger, timestamp |-> timestamp]

(***************************************************************************)
(* A State Manager is the record sm = [context, state_history,             *)
(* conversation_id, user_id]; every operation below takes the manager and  *)
(* the clock reading and returns the manager after the call, the clock     *)
(* after the call and the value returned.  datetime.now() is a strictly    *)
(* increasing logical clock.                                               *)
(***************************************************************************)
ConversationStateManager(user_id, uuid, now) ==
  [sm |-> [user_id |-> user_id,
           conversation_id |-> uuid,
           context |-> ConversationContext(user_id, uuid, now),
           state_history |-> <<>>],
   now |-> now + 2]

\* s[:n] where the code takes s[-n:]: the newest entries are dropped
First(n, s) == IF Len(s) > n THEN SubSeq(s, 1, n) ELSE s

\* s[-n:]
Last(n, s) == IF Len(s) > n THEN SubSeq(s, Len(s) - n + 1, Len(s)) ELSE s

\* update_state without its early return: a request for the current state is
\* recorded like any other
update_state_always(sm, now, new_state, trigger) ==
  LET transition == StateTransition(sm.context.state, new_state, trigger, now + 1)
      appended == Append(sm.state_history, transition)
      limited == IF Len(appended) > max_history_length
                 THEN Last(max_history_length, appended)
                 ELSE appended
  IN [sm |-> [sm EXCEPT !.state_history = limited,
                        !.context.previous_state = sm.context.state,
                        !.context.state = new_state,
                        !.context.updated_at = now + 2],
      now |-> now + 2,
      ret |-> TRUE]

\* update_state leaving previous_state as it is
update_state_previous_kept(sm, now, new_state, trigger) ==
  IF new_state = sm.context.state
  THEN [sm |-> sm, now |-> now, ret |-> FALSE]
  ELSE LET r == update_state_always(sm, now, new_state, trigger)
       IN [r EXCEPT !.sm.context.previous_state = sm.context.previous_state]

\* update_state with CLOSING as a final state: no transition leaves it
update_state_closing_final(sm, now, new_state, trigger) ==
  IF sm.context.state = CLOSING
  THEN [sm |-> sm, now |-> now, ret |-> FALSE]
  ELSE update_state_always(sm, now, new_state, trigger)

update_state(sm, now, new_state, trigger) ==
  IF new_state = sm.context.state
  THEN [sm |-> sm, now |-> now, ret |-> FALSE]
  ELSE LET transition == StateTransition(sm.context.state, new_state, trigger, now + 1)
           appended == Append(sm.state_history, transition)
           limited == IF Len(appended) > max_history_length
                      THEN Last(max_history_length, appended)
                      ELSE appended
       IN [sm |-> [sm EXCEPT !.state_history = limited,
                             !.context.previous_state = sm.context.state,
                             !.context.state = new_state,
                             !.context.updated_at = now + 2],
           now |-> now + 2,
           ret |-> TRUE]

\* update_dialogue_act leaving the act of the context as it is
update_dialogue_act_kept(sm, now, act) == [sm |-> sm, now |-> now, ret |-> FALSE]

update_dialogue_act(sm, now, act) ==
  IF act = sm.context.dialogue_act
  THEN [sm |-> sm, now |-> now, ret |-> FALSE]
  ELSE [sm |-> [sm EXCEPT !.context.dialogue_act = act,
                          !.context.updated_at = now + 1],
        now |-> now + 1,
        ret |-> TRUE]

(***************************************************************************)
(* update_context: the keyword arguments are a function from names to      *)
(* values;                                                                 *)
(* the names that are fields of the context are set, the others ignored.   *)
(***************************************************************************)
ContextFields ==
  {"user_id", "conversation_id", "state", "previous_state", "dialogue_act",
   "topic", "entities", "user_intent", "last_user_input",
   "last_agent_response", "turn_count", "created_at", "updated_at", "metadata"}

\* the names hasattr finds on the context: its fields and the attributes
\* every dataclass instance has, of which __doc__ stands for all; setting
\* one of the latter changes no field
ContextAttributes == ContextFields \cup {"__doc__"}

\* update_context taking turn_count for a name that is not a field
update_context_without_turn_count(sm, now, kwargs) ==
  LET known == DOMAIN kwargs \cap (ContextFields \ {"turn_count"})
      updated == known # {}
      set == [f \in ContextFields |->
                IF f \in known THEN kwargs[f] ELSE sm.context[f]]
  IN IF updated
     THEN [sm |-> [sm EXCEPT !.context = [set EXCEPT !.updated_at = now + 1]],
           now |-> now + 1,
           ret |-> TRUE]
     ELSE [sm |-> sm, now |-> now, ret |-> FALSE]

update_context(sm, now, kwargs) ==
  LET known == DOMAIN kwargs \cap ContextAttributes
      updated == known # {}
      set == [f \in ContextFields |->
                IF f \in known THEN kwargs[f] ELSE sm.context[f]]
  IN IF updated
     THEN [sm |-> [sm EXCEPT !.context = [set EXCEPT !.updated_at = now + 1]],
           now |-> now + 1,
           ret |-> TRUE]
     ELSE [sm |-> sm, now |-> now, ret |-> FALSE]

\* reset_conversation that replaces the context and keeps the history
reset_context_only(sm, now, uuid) ==
  [sm |-> [sm EXCEPT !.conversation_id = uuid,
                     !.context = ConversationContext(sm.user_id, uuid, now)],
   now |-> now + 2]

reset_conversation(sm, now, uuid) ==
  [sm |-> [sm EXCEPT !.conversation_id = uuid,
                     !.context = ConversationContext(sm.user_id, uuid, now),
                     !.state_history = <<>>],
   now |-> now + 2]

(***************************************************************************)
(* to_dict and from_dict.  A field of the context that holds a datetime    *)
(* holds the reading of the clock it was taken at; the n-th reading is the *)
(* instant n half-seconds after the hour.  An ISO-8601 string is the       *)
(* sequence of its parts: the date and the hour, the two digits of the     *)
(* minute, the two digits of the second and, when the microsecond is not   *)
(* 0, the point and the six digits of the microsecond.                     *)
(***************************************************************************)
datetime(n) ==
  [minute |-> ((n * 500000) \div 60000000) % 60,
   second |-> ((n * 500000) \div 1000000) % 60,
   microsecond |-> (n * 500000) % 1000000]

\* the reading a datetime of the hour was taken at
reading(dt) == (dt.minute * 60 + dt.second) * 2 + dt.microsecond \div 500000

isoformat(dt) ==
  LET RECURSIVE Digits(_, _)
      \* n in `width` decimal digits
      Digits(n, width) ==
        IF width = 0 THEN <<>> ELSE Append(Digits(n \div 10, width - 1), n % 10)
  IN <<"2024-01-01T10:">> \o Digits(dt.minute, 2) \o <<":">> \o Digits(dt.second, 2)
     \o (IF dt.microsecond = 0 THEN <<>> ELSE <<".">> \o Digits(dt.microsecond, 6))

\* fromisoformat reading the minute and the second only
fromisoformat_seconds(date_string) ==
  LET RECURSIVE ParseInt(_)
      ParseInt(digits) ==
        IF digits = <<>> THEN 0
        ELSE 10 * ParseInt(SubSeq(digits, 1, Len(digits) - 1)) + digits[Len(digits)]
  IN [minute |-> ParseInt(SubSeq(date_string, 2, 3)),
      second |-> ParseInt(SubSeq(date_string, 5, 6)),
      microsecond |-> 0]

fromisoformat(date_string) ==
  LET RECURSIVE ParseInt(_)
      \* int() of a sequence of decimal digits
      ParseInt(digits) ==
        IF digits = <<>> THEN 0
        ELSE 10 * ParseInt(SubSeq(digits, 1, Len(digits) - 1)) + digits[Len(digits)]
  IN [minute |-> ParseInt(SubSeq(date_string, 2, 3)),
      second |-> ParseInt(SubSeq(date_string, 5, 6)),
      microsecond |-> IF Len(date_string) > 6
                      THEN ParseInt(SubSeq(date_string, 8, 13)) ELSE 0]

\* the member of an enumeration with a given value; the members are held by
\* their values, which is what to_dict stores
EnumOf(enum, v) == CHOOSE member \in enum : member = v

to_dict(sm) ==
  [user_id |-> sm.context.user_id,
   conversation_id |-> sm.context.conversation_id,
   state |-> sm.context.state,
   previous_state |-> sm.context.previous_state,
   dialogue_act |-> sm.context.dialogue_act,
   topic |-> sm.context.topic,
   entities |-> sm.context.entities,
   user_intent |-> sm.context.user_intent,
   last_user_input |-> sm.context.last_user_input,
   last_agent_response |-> sm.context.last_agent_response,
   turn_count |-> sm.context.turn_count,
   created_at |-> isoformat(datetime(sm.context.created_at)),
   updated_at |-> isoformat(datetime(sm.context.updated_at)),
   metadata |-> sm.context.metadata]

\* from_dict: cls(data["user_id"]) draws an identifier and reads the clock
\* twice, then every field of the context is set from the mapping
from_dict(data, uuid, now) ==
  LET m == ConversationStateManager(data.user_id, uuid, now)
  IN [sm |-> [m.sm EXCEPT
                !.context =
                  [user_id |-> data.user_id,
                   conversation_id |-> data.conversation_id,
                   state |-> EnumOf(ConversationState, data.state),
                   previous_state |-> EnumOf(ConversationState, data.previous_state),
                   dialogue_act |-> EnumOf(DialogueAct, data.dialogue_act),
                   topic |-> data.topic,
                   entities |-> data.entities,
                   user_intent |-> data.user_intent,
                   last_user_input |-> data.last_user_input,
                   last_agent_response |-> data.last_agent_response,
                   turn_count |-> data.turn_count,
                   created_at |-> reading(fromisoformat(data.created_at)),
                   updated_at |-> reading(fromisoformat(data.updated_at)),
                   metadata |-> data.metadata]],
      now |-> m.now]

(***************************************************************************)
(* Text layer.  Spell gives the characters of every token the model uses   *)
(* (the words of the corpus and the words of the keyword tables of the     *)
(* code); the substring tests of the code (`in`, find, endswith, len) are  *)
(* computed on characters, the regular expressions on tokens (every        *)
(* pattern of the code is a \b-delimited alternation of phrases, so that a *)
(* match starts and ends at token boundaries).                             *)
(***************************************************************************)
Spell ==
  "!" :> <<"!">>
  @@ "." :> <<".">>
  @@ "?" :> <<"?">>
  @@ "I" :> <<"I">>
  @@ "about" :> <<"a", "b", "o", "u", "t">>
  @@ "all" :> <<"a", "l", "l">>
  @@ "amount" :> <<"a", "m", "o", "u", "n", "t">>
  @@ "because" :> <<"b", "e", "c", "a", "u", "s", "e">>
  @@ "blue" :> <<"b", "l", "u", "e">>
  @@ "break" :> <<"b", "r", "e", "a", "k">>
  @@ "bye" :> <<"b", "y", "e">>
  @@ "can" :> <<"c", "a", "n">>
  @@ "choose" :> <<"c", "h", "o", "o", "s", "e">>
  @@ "conclude" :> <<"c", "o", "n", "c", "l", "u", "d", "e">>
  @@ "conclusion" :> <<"c", "o", "n", "c", "l", "u", "s", "i", "o", "n">>
  @@ "conflict" :> <<"c", "o", "n", "f", "l", "i", "c", "t">>
  @@ "could" :> <<"c", "o", "u", "l", "d">>
  @@ "date" :> <<"d", "a", "t", "e">>
  @@ "decide" :> <<"d", "e", "c", "i", "d", "e">>
  @@ "deduce" :> <<"d", "e", "d", "u", "c", "e">>
  @@ "do" :> <<"d", "o">>
  @@ "down" :> <<"d", "o", "w", "n">>
  @@ "exit" :> <<"e", "x", "i", "t">>
  @@ "for" :> <<"f", "o", "r">>
  @@ "good" :> <<"g", "o", "o", "d">>
  @@ "hello" :> <<"h", "e", "l", "l", "o">>
  @@ "help" :> <<"h", "e", "l", "p">>
  @@ "homework" :> <<"h", "o", "m", "e", "w", "o", "r", "k">>
  @@ "how" :> <<"h", "o", "w">>
  @@ "i" :> <<"i">>
  @@ "infer" :> <<"i", "n", "f", "e", "r">>
  @@ "is" :> <<"i", "s">>
  @@ "it" :> <<"i", "t">>
  @@ "logic" :> <<"l", "o", "g", "i", "c">>
  @@ "many" :> <<"m", "a", "n", "y">>
  @@ "math" :> <<"m", "a", "t", "h">>
  @@ "me" :> <<"m", "e">>
  @@ "my" :> <<"m", "y">>
  @@ "name" :> <<"n", "a", "m", "e">>
  @@ "need" :> <<"n", "e", "e", "d">>
  @@ "number" :> <<"n", "u", "m", "b", "e", "r">>
  @@ "one" :> <<"o", "n", "e">>
  @@ "organize" :> <<"o", "r", "g", "a", "n", "i", "z", "e">>
  @@ "pick" :> <<"p", "i", "c", "k">>
  @@ "place" :> <<"p", "l", "a", "c", "e">>
  @@ "plan" :> <<"p", "l", "a", "n">>
  @@ "please" :> <<"p", "l", "e", "a", "s", "e">>
  @@ "priority" :> <<"p", "r", "i", "o", "r", "i", "t", "y">>
  @@ "project" :> <<"p", "r", "o", "j", "e", "c", "t">>
  @@ "quit" :> <<"q", "u", "i", "t">>
  @@ "reason" :> <<"r", "e", "a", "s", "o", "n">>
  @@ "schedule" :> <<"s", "c", "h", "e", "d", "u", "l", "e">>
  @@ "select" :> <<"s", "e", "l", "e", "c", "t">>
  @@ "should" :> <<"s", "h", "o", "u", "l", "d">>
  @@ "sky" :> <<"s", "k", "y">>
  @@ "somehow" :> <<"s", "o", "m", "e", "h", "o", "w">>
  @@ "someone" :> <<"s", "o", "m", "e", "o", "n", "e">>
  @@ "something" :> <<"s", "o", "m", "e", "t", "h", "i", "n", "g">>
  @@ "somewhere" :> <<"s", "o", "m", "e", "w", "h", "e", "r", "e">>
  @@ "sorry" :> <<"s", "o", "r", "r", "y">>
  @@ "steps" :> <<"s", "t", "e", "p", "s">>
  @@ "stuff" :> <<"s", "t", "u", "f", "f">>
  @@ "task" :> <<"t", "a", "s", "k">>
  @@ "tasks" :> <<"t", "a", "s", "k", "s">>
  @@ "thanks" :> <<"t", "h", "a", "n", "k", "s">>
  @@ "the" :> <<"t", "h", "e">>
  @@ "therefore" :> <<"t", "h", "e", "r", "e", "f", "o", "r", "e">>
  @@ "thing" :> <<"t", "h", "i", "n", "g">>
  @@ "think" :> <<"t", "h", "i", "n", "k">>
  @@ "this" :> <<"t", "h", "i", "s">>
  @@ "thus" :> <<"t", "h", "u", "s">>
  @@ "time" :> <<"t", "i", "m", "e">>
  @@ "to" :> <<"t", "o">>
  @@ "want" :> <<"w", "a", "n", "t">>
  @@ "what" :> <<"w", "h", "a", "t">>
  @@ "which" :> <<"w", "h", "i", "c", "h">>
  @@ "with" :> <<"w", "i", "t", "h">>
  @@ "yes" :> <<"y", "e", "s">>
  @@ "you" :> <<"y", "o", "u">>

Punctuation == {"?", ".", "!"}

RECURSIVE Chars(_)
Chars(toks) ==
  IF toks = <<>> THEN <<>>
  ELSE LET n == Len(toks)
           front == Chars(SubSeq(toks, 1, n - 1))
       IN IF n = 1 \/ toks[n] \in Punctuation
          THEN front \o Spell[toks[n]]
          ELSE front \o <<" ">> \o Spell[toks[n]]

\* 0-based offset of the first character of token i, and the offset after
\* its last character (the span of a regex match in Python).
TokEnd(toks, i) == Len(Chars(SubSeq(toks, 1, i)))
TokStart(toks, i) == TokEnd(toks, i) - Len(Spell[toks[i]])

\* sub occurs in s at 0-based offset k
OccursAt(sub, s, k) ==
  /\ k + Len(sub) <= Len(s)
  /\ \A j \in 1..Len(sub) : s[k + j] = sub[j]

\* str.find
Find(s, sub) ==
  LET at == {k \in 0..(Len(s) - Len(sub)) : OccursAt(sub, s, k)}
  IN IF at = {} THEN -1 ELSE CHOOSE k \in at : \A j \in at : k <= j

\* the `in` operator on strings
Contains(s, sub) == Find(s, sub) # -1

\* str.endswith
EndsWith(s, sub) == Len(sub) <= Len(s) /\ OccursAt(sub, s, Len(s) - Len(sub))

\* text.lower().strip() of a text, as characters
text_lower(t) == Chars(t.toks)

\* len(text)
TextLen(t) == Len(Chars(t.toks))

(***************************************************************************)
(* Regular expressions.  A pattern is [head, tail, tailp]: head is the     *)
(* ordered alternation of phrases between the leading \b and the closing   *)
(* \b (the single empty phrase for a pattern that starts with dot-star),   *)
(* tail is                                                                 *)
(*   "none"  nothing follows the head,                                     *)
(*   "q"     dot-star and \? follow,                                       *)
(*   "qend"  dot-star, \? and $ follow,                                    *)
(*   "phr"   dot-star and a second \b-delimited alternation tailp follow.  *)
(* An apostrophe is not a token character, so the optional apostrophe of   *)
(* the pattern what\'?s matches the token whats.                           *)
(***************************************************************************)
P(head) == [head |-> head, tail |-> "none", tailp |-> <<>>]
PQ(head) == [head |-> head, tail |-> "q", tailp |-> <<>>]
PQEnd(head) == [head |-> head, tail |-> "qend", tailp |-> <<>>]
PPhr(head, tailp) == [head |-> head, tail |-> "phr", tailp |-> tailp]

PhraseAt(toks, i, ph) ==
  /\ i >= 1
  /\ i + Len(ph) - 1 <= Len(toks)
  /\ \A k \in 1..Len(ph) : toks[i + k - 1] = ph[k]

\* last token of the match of pattern p that starts at token i with the
\* head alternative a (0 when there is no such match); the dot-star is
\* greedy, so the match runs to the last place where the tail matches
MatchEndWith(p, toks, i, a) ==
  LET n == Len(toks)
      e == i + Len(p.head[a]) - 1
  IN IF ~PhraseAt(toks, i, p.head[a]) THEN 0
     ELSE CASE p.tail = "none" -> IF Len(p.head[a]) = 0 THEN 0 ELSE e
            [] p.tail = "q" ->
                 LET qs == {j \in (e + 1)..n : toks[j] = "?"}
                 IN IF qs = {} THEN 0 ELSE CHOOSE j \in qs : \A k \in qs : k <= j
            [] p.tail = "qend" ->
                 IF e < n /\ toks[n] = "?" THEN n ELSE 0
            [] p.tail = "phr" ->
                 LET js == {j \in (e + 1)..n :
                              \E b \in 1..Len(p.tailp) : PhraseAt(toks, j, p.tailp[b])}
                 IN IF js = {} THEN 0
                    ELSE LET j == CHOOSE x \in js : \A k \in js : k <= x
                             b == CHOOSE x \in 1..Len(p.tailp) :
                                    /\ PhraseAt(toks, j, p.tailp[x])
                                    /\ \A y \in 1..(x - 1) : ~PhraseAt(toks, j, p.tailp[y])
                         IN j + Len(p.tailp[b]) - 1

\* the match that starts at token i: the first head alternative that leads
\* to a match decides (0 when nothing matches at i)
MatchEnd(p, toks, i) ==
  LET as == {a \in 1..Len(p.head) : MatchEndWith(p, toks, i, a) # 0}
  IN IF as = {} THEN 0
     ELSE MatchEndWith(p, toks, i, CHOOSE a \in as : \A b \in as : a <= b)

\* re.finditer: the non-overlapping matches from left to right, as pairs
\* <<first token, last token>>, scanning from token i
RECURSIVE FindIterFrom(_, _, _)
FindIterFrom(p, toks, i) ==
  IF i > Len(toks) THEN <<>>
  ELSE LET e == MatchEnd(p, toks, i)
       IN IF e = 0 THEN FindIterFrom(p, toks, i + 1)
          ELSE <<(<<i, e>>)>> \o FindIterFrom(p, toks, e + 1)

finditer(p, toks) == FindIterFrom(p, toks, 1)

\* re.search
search(p, toks) == finditer(p, toks) # <<>>

\* re.fullmatch: some alternative of the head at the first token and a tail
\* that ends at the last token
fullmatch(p, toks) ==
  LET n == Len(toks)
  IN \E a \in 1..Len(p.head) :
       LET e == Len(p.head[a])
       IN /\ PhraseAt(toks, 1, p.head[a])
          /\ CASE p.tail = "none" -> e = n /\ n > 0
               [] p.tail \in {"q", "qend"} -> e < n /\ toks[n] = "?"
               [] p.tail = "phr" ->
                    \E b \in 1..Len(p.tailp) :
                      /\ n - Len(p.tailp[b]) + 1 > e
                      /\ PhraseAt(toks, n - Len(p.tailp[b]) + 1, p.tailp[b])

(***************************************************************************)
(* conversation/dialogue_act.py                                            *)
(***************************************************************************)
\* one-word phrases
Ws(words) == [i \in 1..Len(words) |-> <<words[i]>>]

ActOrder ==
  <<ActGREETING, ActCLOSING, ActQUESTION, ActREQUEST, ActCONFIRMATION,
    ActCLARIFICATION, ActACKNOWLEDGMENT>>

ActPatterns ==
  (ActGREETING :> <<
      P(Ws(<<"hello", "hi", "hey">>) \o
        << <<"good", "morning">>, <<"good", "afternoon">>, <<"good", "evening">> >>),
      P(Ws(<<"howdy">>)),
      P(<< <<"whats", "up">> >>) >>)
  @@ (ActCLOSING :> <<
      P(<< <<"bye">>, <<"goodbye">>, <<"see", "you">>, <<"farewell">>,
           <<"quit">>, <<"exit">> >>),
      P(<< <<"thats", "all">>, <<"thats", "it">> >>) >>)
  @@ (ActQUESTION :> <<
      PQ(Ws(<<"what", "where", "when", "why", "how", "who", "which", "whose", "whom">>)),
      PQ(Ws(<<"could", "would", "can", "will", "shall", "do", "does", "did",
              "is", "are", "was", "were">>)),
      PQEnd(<< <<>> >>) >>)
  @@ (ActREQUEST :> <<
      P(<< <<"please">>, <<"could", "you">>, <<"would", "you">>, <<"can", "you">>,
           <<"help", "me">> >>),
      P(<< <<"i", "need">>, <<"i", "want">>, <<"i", "would", "like">> >>),
      P(<< <<"tell", "me">>, <<"show", "me">>, <<"give", "me">>, <<"find", "me">> >>) >>)
  @@ (ActCONFIRMATION :> <<
      P(Ws(<<"yes", "yeah", "yep", "sure", "ok", "okay", "right", "correct",
             "affirmative">>)),
      P(Ws(<<"no", "nope", "negative">>)) >>)
  @@ (ActCLARIFICATION :> <<
      P(<< <<"what", "do", "you", "mean">>, <<"can", "you", "explain">>,
           <<"what", "exactly">>, <<"sorry">> >>),
      P(<< <<"i", "dont", "understand">>, <<"im", "confused">> >>) >>)
  @@ (ActACKNOWLEDGMENT :> <<
      P(<< <<"i", "see">>, <<"i", "understand">>, <<"got", "it">>, <<"okay">>,
           <<"ok">>, <<"right">> >>),
      P(<< <<"thanks">>, <<"thank", "you">>, <<"appreciate", "it">> >>) >>)

\* the first pattern that is found decides between 0.9 and 0.7
RECURSIVE ScoreFrom(_, _, _)
ScoreFrom(toks, patterns, k) ==
  IF k > Len(patterns) THEN 0
  ELSE IF search(patterns[k], toks)
       THEN IF fullmatch(patterns[k], toks) THEN 900000 ELSE 700000
       ELSE ScoreFrom(toks, patterns, k + 1)

_calculate_pattern_score(toks, patterns) == ScoreFrom(toks, patterns, 1)

\* the loop of recognize_act with >= for >: a tie goes to the later act
RECURSIVE BestFromLast(_, _, _)
BestFromLast(toks, k, best) ==
  IF k > Len(ActOrder) THEN best
  ELSE LET score == _calculate_pattern_score(toks, ActPatterns[ActOrder[k]])
       IN BestFromLast(toks, k + 1,
                       IF score >= best.score
                       THEN [act |-> ActOrder[k], score |-> score]
                       ELSE best)

RECURSIVE BestFrom(_, _, _)
BestFrom(toks, k, best) ==
  IF k > Len(ActOrder) THEN best
  ELSE LET score == _calculate_pattern_score(toks, ActPatterns[ActOrder[k]])
       IN BestFrom(toks, k + 1,
                   IF score > best.score
                   THEN [act |-> ActOrder[k], score |-> score]
                   ELSE best)

recognize_act(t) ==
  IF text_lower(t) = <<>>
  THEN [act |-> ActERROR, score |-> 0]
  ELSE BestFrom(t.toks, 1, [act |-> ActSTATEMENT, score |-> 100000])

(***************************************************************************)
(* conversation/ambiguity_detector.py                                      *)
(***************************************************************************)
ENTITY_AMBIGUITY == "entity_ambiguity"
SCOPE_AMBIGUITY == "scope_ambiguity"
INTENT_AMBIGUITY == "intent_ambiguity"
TEMPORAL_AMBIGUITY == "temporal_ambiguity"
QUANTIFIER_AMBIGUITY == "quantifier_ambiguity"
REFERENCE_AMBIGUITY == "reference_ambiguity"
CONTEXT_AMBIGUITY == "context_ambiguity"

AmbiguityOrder ==
  <<ENTITY_AMBIGUITY, SCOPE_AMBIGUITY, INTENT_AMBIGUITY, TEMPORAL_AMBIGUITY,
    QUANTIFIER_AMBIGUITY, REFERENCE_AMBIGUITY, CONTEXT_AMBIGUITY>>

AmbiguityPatterns ==
  (ENTITY_AMBIGUITY :> <<
      P(Ws(<<"it", "this", "that", "these", "those">>)),
      P(Ws(<<"he", "she", "they", "them", "we", "us">>)),
      P(<< <<"the", "thing">>, <<"the", "stuff">>, <<"this", "one">>,
           <<"that", "one">> >>) >>)
  @@ (SCOPE_AMBIGUITY :> <<
      P(Ws(<<"all", "everything", "everywhere">>)),
      PPhr(<< <<"some">>, <<"a", "few">>, <<"several">> >>,
           << <<"of", "them">>, <<"of", "it">>, <<"of", "this">> >>),
      P(<< <<"part", "of">>, <<"some", "of">>, <<"a", "bit", "of">> >>),
      P(<< <<"a", "few", "of", "those", "things">> >>) >>)
  @@ (INTENT_AMBIGUITY :> <<
      PQEnd(<< <<"help", "me">>, <<"can", "you">>, <<"could", "you">>,
               <<"would", "you">> >>),
      PQEnd(<< <<"i", "need">>, <<"i", "want">> >>),
      P(<< <<"what", "about">>, <<"how", "about">> >>),
      P(<< <<"i", "need", "help", "with", "this">> >>) >>)
  @@ (TEMPORAL_AMBIGUITY :> <<
      P(Ws(<<"sometimes", "often", "usually", "occasionally">>)),
      P(<< <<"later">>, <<"soon">>, <<"in", "a", "bit">>, <<"in", "a", "moment">> >>),
      PQ(Ws(<<"when", "whenever", "while">>)),
      P(Ws(<<"recently", "lately", "before", "afterwards">>)) >>)
  @@ (QUANTIFIER_AMBIGUITY :> <<
      P(<< <<"a", "lot", "of">>, <<"a", "bunch", "of">>, <<"a", "lot">>,
           <<"many">>, <<"much">> >>),
      P(<< <<"few">>, <<"a", "few">>, <<"several">>, <<"some">> >>),
      P(<< <<"enough">>, <<"too", "much">>, <<"too", "many">> >>) >>)
  @@ (REFERENCE_AMBIGUITY :> <<
      PQ(Ws(<<"this", "that", "these", "those">>)),
      PQ(Ws(<<"he", "she", "it", "they", "them">>)),
      PPhr(Ws(<<"one", "ones">>),
           << <<"refer", "to">>, <<"mean">>, <<"talking", "about">> >>) >>)
  @@ (CONTEXT_AMBIGUITY :> <<
      P(<< <<"in", "that", "case">>, <<"given", "that">>, <<"considering", "that">> >>),
      P(<< <<"as", "we", "discussed">>, <<"as", "mentioned">>, <<"like", "before">> >>),
      PPhr(<< <<"based", "on">>, <<"according", "to">> >>,
           Ws(<<"you", "your", "previous">>)) >>)

vague_terms == <<"thing", "stuff", "something", "someone", "somewhere", "somehow">>

incomplete_phrases ==
  << <<"i", "want">>, <<"i", "need">>, <<"help", "me">>, <<"can", "you">>,
     <<"could", "you">> >>

AmbiguityDetection(type, confidence, description, position, suggested_clarification) ==
  [type |-> type, confidence |-> confidence, description |-> description,
   position |-> position, suggested_clarification |-> suggested_clarification]

\* text[start:end] of the text as typed: its characters in lower case and
\* whether it holds the upper-case first letter
Slice(t, start, end) ==
  [chars |-> SubSeq(Chars(t.toks), start + 1, end),
   upper |-> t.cap /\ start = 0 /\ end > 0]

\* IEEE-754 double addition of the decimal literals of the code, in units of
\* 10^-6: the sums that are not the nearest double of the decimal result are
\* one unit off on the side where the double lies
FloatRounding ==
  (<<700000, 100000>> :> -1) @@ (<<800000, -200000>> :> 1)
  @@ (<<800000, -100000>> :> 1) @@ (<<600000, -200000>> :> -1)
  @@ (<<700000, -200000>> :> -1)

FloatAdd(a, b) ==
  a + b + (IF <<a, b>> \in DOMAIN FloatRounding THEN FloatRounding[<<a, b>>] ELSE 0)

Max(a, b) == IF a >= b THEN a ELSE b
Min(a, b) == IF a <= b THEN a ELSE b

base_confidence ==
  (ENTITY_AMBIGUITY :> 700000) @@ (SCOPE_AMBIGUITY :> 600000)
  @@ (INTENT_AMBIGUITY :> 800000) @@ (TEMPORAL_AMBIGUITY :> 600000)
  @@ (QUANTIFIER_AMBIGUITY :> 500000) @@ (REFERENCE_AMBIGUITY :> 700000)
  @@ (CONTEXT_AMBIGUITY :> 600000)

_calculate_confidence(ambiguity_type, matched_text, lower) ==
  LET base == IF ambiguity_type \in DOMAIN base_confidence
              THEN base_confidence[ambiguity_type] ELSE 500000
      adj1 == IF /\ ~matched_text.upper
                 /\ EndsWith(lower, matched_text.chars)
                 /\ Contains(lower, <<"?">>)
              THEN FloatAdd(0, 100000) ELSE 0
      adj2 == IF Len(lower) < 10 THEN FloatAdd(adj1, -200000) ELSE adj1
      confidence == FloatAdd(base, adj2)
  IN Max(0, Min(1000000, confidence))

descriptions ==
  (ENTITY_AMBIGUITY :> "Unclear reference to") @@ (SCOPE_AMBIGUITY :> "Unclear scope with")
  @@ (INTENT_AMBIGUITY :> "Unclear intent with") @@ (TEMPORAL_AMBIGUITY :> "Unclear timing with")
  @@ (QUANTIFIER_AMBIGUITY :> "Unclear quantity with")
  @@ (REFERENCE_AMBIGUITY :> "Unclear reference to")
  @@ (CONTEXT_AMBIGUITY :> "Missing context with")

clarifications ==
  (ENTITY_AMBIGUITY :> "Could you be more specific about what you're referring to?")
  @@ (SCOPE_AMBIGUITY :> "Could you clarify what you mean by that?")
  @@ (INTENT_AMBIGUITY :> "What exactly would you like me to help you with?")
  @@ (TEMPORAL_AMBIGUITY :> "When are you referring to?")
  @@ (QUANTIFIER_AMBIGUITY :> "How much or how many are you referring to?")
  @@ (REFERENCE_AMBIGUITY :> "What specifically are you referring to?")
  @@ (CONTEXT_AMBIGUITY :> "Could you provide more context for your request?")

\* description is the pair of the fixed words and the quoted matched text
_generate_description_and_clarification(ambiguity_type, matched_text) ==
  [description |-> <<descriptions[ambiguity_type], matched_text>>,
   clarification |-> clarifications[ambiguity_type]]

\* match is the pair <<first token, last token>> of a regex match
_create_ambiguity_detection(ambiguity_type, match, t) ==
  LET start == TokStart(t.toks, match[1])
      end == TokEnd(t.toks, match[2])
      matched_text == Slice(t, start, end)
      confidence == _calculate_confidence(ambiguity_type, matched_text, text_lower(t))
      dc == _generate_description_and_clarification(ambiguity_type, matched_text)
  IN AmbiguityDetection(ambiguity_type, confidence, dc.description,
                        <<start, end>>, dc.clarification)

RECURSIVE Flatten(_)
Flatten(ss) == IF ss = <<>> THEN <<>> ELSE Head(ss) \o Flatten(Tail(ss))

\* the pattern scan: types in table order, patterns in list order, matches
\* from left to right
PatternScan(t) ==
  Flatten([a \in 1..Len(AmbiguityOrder) |->
    LET type == AmbiguityOrder[a]
        patterns == AmbiguityPatterns[type]
    IN Flatten([k \in 1..Len(patterns) |->
         LET matches == finditer(patterns[k], t.toks)
         IN [m \in 1..Len(matches) |->
               _create_ambiguity_detection(type, matches[m], t)]])])

SelectSeqIdx(s, Test(_)) ==
  LET RECURSIVE Sel(_)
      Sel(i) == IF i > Len(s) THEN <<>>
                ELSE (IF Test(i) THEN <<s[i]>> ELSE <<>>) \o Sel(i + 1)
  IN Sel(1)

_detect_keyword_ambiguities(lower) ==
  LET vague(i) == Contains(lower, Spell[vague_terms[i]])
      vagueDet == [i \in 1..Len(vague_terms) |->
         LET term == Spell[vague_terms[i]]
             start == Find(lower, term)
         IN AmbiguityDetection(ENTITY_AMBIGUITY, 600000,
              <<"Vague term used", term>>, <<start, start + Len(term)>>,
              "Could you be more specific about what you mean?")]
      incomplete(i) == EndsWith(lower, Chars(incomplete_phrases[i]))
      incompleteDet == [i \in 1..Len(incomplete_phrases) |->
         LET phrase == Chars(incomplete_phrases[i])
             start == Find(lower, phrase)
         IN AmbiguityDetection(INTENT_AMBIGUITY, 800000,
              <<"Incomplete request ending with", phrase>>,
              <<start, start + Len(phrase)>>,
              "What specifically would you like me to do?")]
  IN SelectSeqIdx(vagueDet, vague) \o SelectSeqIdx(incompleteDet, incomplete)

vague_question_indicators == {"what", "how", "which"}
specific_terms == {"name", "date", "time", "place", "number", "amount"}

\* the empty sequence stands for None
_detect_dialogue_act_ambiguity(t) ==
  LET lower == text_lower(t)
  IN IF /\ EndsWith(lower, <<"?">>)
        /\ \E indicator \in vague_question_indicators : Contains(lower, Spell[indicator])
        /\ ~\E term \in specific_terms : Contains(lower, Spell[term])
     THEN << AmbiguityDetection(INTENT_AMBIGUITY, 700000,
               <<"General question without specific details", <<>> >>,
               <<0, TextLen(t)>>,
               "Could you be more specific about what information you're looking for?") >>
     ELSE <<>>

pos_key(a) == <<a.position[1], a.position[2], a.type>>

\* _remove_duplicates keeping every detection
_keep_duplicates(ambiguities) == ambiguities

RECURSIVE _remove_duplicates(_)
_remove_duplicates(ambiguities) ==
  IF ambiguities = <<>> THEN <<>>
  ELSE LET n == Len(ambiguities)
           front == SubSeq(ambiguities, 1, n - 1)
           x == ambiguities[n]
       IN IF \E i \in 1..(n - 1) : pos_key(ambiguities[i]) = pos_key(x)
          THEN _remove_duplicates(front)
          ELSE Append(_remove_duplicates(front), x)

\* list.sort(key=confidence, reverse=True) and sorted(...): stable, an
\* element goes after the elements that are not smaller
RECURSIVE SortByConfidence(_)
SortByConfidence(s) ==
  IF s = <<>> THEN <<>>
  ELSE LET n == Len(s)
           sorted == SortByConfidence(SubSeq(s, 1, n - 1))
           x == s[n]
           k == Cardinality({i \in 1..Len(sorted) : sorted[i].confidence >= x.confidence})
       IN SubSeq(sorted, 1, k) \o <<x>> \o SubSeq(sorted, k + 1, Len(sorted))

detect_ambiguities(t) ==
  LET ambiguities == PatternScan(t)
                     \o _detect_keyword_ambiguities(text_lower(t))
                     \o _detect_dialogue_act_ambiguity(t)
      unique_ambiguities == _remove_duplicates(ambiguities)
  IN SortByConfidence(unique_ambiguities)

(***************************************************************************)
(* random.choice(pool).  The generator behind the random module is a       *)
(* deterministic function of its hidden state; the model keeps that state  *)
(* as a number r that every draw advances by one, the element drawn being  *)
(* the one at index r modulo the size of the pool.  The seed is one of     *)
(* Seeds.                                                                  *)
(***************************************************************************)
Seeds == {0}

choice(pool, r) == pool[(r % Len(pool)) + 1]

(***************************************************************************)
(* conversation/question_generator.py                                      *)
(***************************************************************************)
question_templates ==
  (ENTITY_AMBIGUITY :> <<
      "Could you be more specific about what you're referring to?",
      "What exactly are you talking about?",
      "Can you clarify what you mean by that?",
      "Which specific {entity} are you referring to?",
      "I'm not sure what you mean. Could you provide more details?">>)
  @@ (SCOPE_AMBIGUITY :> <<
      "Could you clarify what you mean by that?",
      "What specifically are you referring to?",
      "Can you be more specific about the scope?",
      "Are you referring to all of them or just some?",
      "What exactly do you mean by '{scope}'?">>)
  @@ (INTENT_AMBIGUITY :> <<
      "What exactly would you like me to help you with?",
      "Could you clarify what you're trying to accomplish?",
      "What specifically are you looking for?",
      "Can you tell me more about what you need?",
      "I'd like to help, but I'm not sure what you want. Could you explain?">>)
  @@ (TEMPORAL_AMBIGUITY :> <<
      "When are you referring to?",
      "Could you be more specific about the timing?",
      "What time period are you asking about?",
      "Are you referring to now, in the past, or in the future?",
      "Can you clarify when you mean?">>)
  @@ (QUANTIFIER_AMBIGUITY :> <<
      "How much or how many are you referring to?",
      "Could you be more specific about the quantity?",
      "What amount are you asking about?",
      "Can you give me a specific number?",
      "How many exactly?">>)
  @@ (REFERENCE_AMBIGUITY :> <<
      "What specifically are you referring to?",
      "Could you clarify what you mean by that?",
      "Which one are you talking about?",
      "I'm not sure what you're referring to. Could you be more specific?",
      "Can you tell me more about what you mean?">>)
  @@ (CONTEXT_AMBIGUITY :> <<
      "Could you provide more context for your request?",
      "Can you give me more background information?",
      "I'm not sure I understand the context. Could you explain more?",
      "What situation are you referring to?",
      "Could you clarify the circumstances you're asking about?">>)

question_fallback_templates ==
  <<"Could you clarify what you mean?",
    "I'm not sure I understand. Could you explain more?",
    "Can you be more specific about what you're asking?",
    "Could you provide more details?",
    "I'd like to help, but I need a bit more information. What exactly do you mean?">>

\* the framing templates, each the text before its {question} slot, which
\* is the last thing in every one of them
contextual_templates ==
  <<"To better assist you, could you clarify: ",
    "I want to make sure I understand correctly. ",
    "Could you help me understand what you mean by that? ",
    "To provide the best response, I need a bit more information: ",
    "Could you elaborate on that point? ">>

_customize_template(template, ambiguity) == template

_add_context_to_question(question, context, r) ==
  choice(contextual_templates, r) \o question

\* context is the mapping passed by the caller, <<>> for None or {}; r is the
\* state of the generator, the call draws once or twice
generate_clarification_question(ambiguity, context, r) ==
  LET templates == IF ambiguity.type \in DOMAIN question_templates
                   THEN question_templates[ambiguity.type]
                   ELSE question_fallback_templates
      template == choice(templates, r)
      question == _customize_template(template, ambiguity)
  IN IF context # <<>>
     THEN _add_context_to_question(question, context, r + 1)
     ELSE question

\* generate_multiple_questions keeping the detections of lowest confidence
generate_multiple_questions_lowest(ambiguities, max_questions, context, r) ==
  LET sorted_ambiguities == SortByConfidence(ambiguities)
      n == Len(sorted_ambiguities)
      top_ambiguities == [i \in 1..Min(max_questions, n) |->
                            sorted_ambiguities[n + 1 - i]]
  IN [i \in 1..Len(top_ambiguities) |->
        generate_clarification_question(
          top_ambiguities[i], context,
          r + (IF context # <<>> THEN 2 ELSE 1) * (i - 1))]

\* r is the state of the generator; with a context every question draws
\* twice, without one once
generate_multiple_questions(ambiguities, max_questions, context, r) ==
  LET sorted_ambiguities == SortByConfidence(ambiguities)
      top_ambiguities == SubSeq(sorted_ambiguities, 1,
                                Min(max_questions, Len(sorted_ambiguities)))
  IN [i \in 1..Len(top_ambiguities) |->
        generate_clarification_question(
          top_ambiguities[i], context,
          r + (IF context # <<>> THEN 2 ELSE 1) * (i - 1))]

\* the `in` operator with a character on the left: the string s holds c
\* (looked for from the end of s)
HasChar(s, c) ==
  \E i \in 1..Len(s) : SubSeq(s, Len(s) + 1 - i, Len(s) + 1 - i) = c

UpperCase ==
  ("A" :> "a") @@ ("B" :> "b") @@ ("C" :> "c") @@ ("D" :> "d") @@ ("E" :> "e")
  @@ ("F" :> "f") @@ ("G" :> "g") @@ ("H" :> "h") @@ ("I" :> "i") @@ ("J" :> "j")
  @@ ("K" :> "k") @@ ("L" :> "l") @@ ("M" :> "m") @@ ("N" :> "n") @@ ("O" :> "o")
  @@ ("P" :> "p") @@ ("Q" :> "q") @@ ("R" :> "r") @@ ("S" :> "s") @@ ("T" :> "t")
  @@ ("U" :> "u") @@ ("V" :> "v") @@ ("W" :> "w") @@ ("X" :> "x") @@ ("Y" :> "y")
  @@ ("Z" :> "z")

\* str.lower
RECURSIVE str_lower(_)
str_lower(s) ==
  IF s = "" THEN ""
  ELSE LET c == SubSeq(s, 1, 1)
       IN (IF c \in DOMAIN UpperCase THEN UpperCase[c] ELSE c)
          \o str_lower(SubSeq(s, 2, Len(s)))

\* set(s.split()): the words of s from its i-th character on, `word` being
\* the characters of the word that is being read
RECURSIVE str_split(_, _, _)
str_split(s, i, word) ==
  LET c == SubSeq(s, i, i)
      done == IF word = "" THEN {} ELSE {word}
  IN IF i > Len(s) THEN done
     ELSE IF c \in {" ", "\n", "\t", "\r"}
          THEN done \cup str_split(s, i + 1, "")
          ELSE str_split(s, i + 1, word \o c)

direct_forms ==
  ("Could you be more specific about what you're referring to?" :> "What are you referring to?")
  @@ ("Could you clarify what you mean by that?" :> "What do you mean?")
  @@ ("What exactly would you like me to help you with?" :> "What do you want?")
  @@ ("How much or how many are you referring to?" :> "How many?")
  @@ ("When are you referring to?" :> "When?")
  @@ ("What specifically are you referring to?" :> "What do you mean?")
  @@ ("Could you provide more context for your request?" :> "More context?")
  @@ ("Could you clarify what you're trying to accomplish?" :> "What are you trying to do?")

_make_question_more_direct(question) ==
  IF question \in DOMAIN direct_forms THEN direct_forms[question] ELSE question

_is_similar_question(question, recent_questions) ==
  LET question_keywords == str_split(str_lower(question), 1, "")
  IN \E k \in DOMAIN recent_questions :
       LET recent_keywords == str_split(str_lower(recent_questions[k]), 1, "")
       IN 2 * Cardinality(question_keywords \cap recent_keywords)
            > Cardinality(question_keywords)

rephrased_forms ==
  ("Could you be more specific about what you're referring to?" :> "Can you tell me exactly what you mean?")
  @@ ("What exactly would you like me to help you with?" :> "What kind of help are you looking for?")
  @@ ("Could you clarify what you mean by that?" :> "Can you explain that differently?")
  @@ ("How much or how many are you referring to?" :> "What quantity are you asking about?")
  @@ ("When are you referring to?" :> "What time are you asking about?")
  @@ ("What specifically are you referring to?" :> "Which one do you mean?")
  @@ ("Could you provide more context for your request?" :> "Can you give me more background?")
  @@ ("Could you clarify what you're trying to accomplish?" :> "What's your goal here?")

_rephrase_question(question) ==
  IF question \in DOMAIN rephrased_forms
  THEN rephrased_forms[question]
  ELSE "Let me ask differently: " \o question

\* the value is the question returned and whether the call went through
\* _rephrase_question; user_preferences and conversation_history are <<>>
\* for None; the call draws once
generate_adaptive_question(ambiguity, user_preferences, conversation_history, r) ==
  LET basic == generate_clarification_question(ambiguity, <<>>, r)
      question == IF \E p \in DOMAIN user_preferences :
                        str_lower(user_preferences[p])
                          \in {"direct", "concise", "straightforward"}
                  THEN _make_question_more_direct(basic)
                  ELSE basic
      n == Len(conversation_history)
      last4 == SubSeq(conversation_history, IF n > 4 THEN n - 3 ELSE 1, n)
      recent_questions ==
        LET turns == SelectSeq(last4, LAMBDA turn :
                       turn.role = "assistant" /\ HasChar(turn.content, "?"))
        IN [k \in DOMAIN turns |-> turns[k].content]
      rephrase == /\ n > 2
                  /\ recent_questions # <<>>
                  /\ _is_similar_question(question, recent_questions)
  IN [ret |-> IF rephrase THEN _rephrase_question(question) ELSE question,
      rephrased |-> rephrase]

(***************************************************************************)
(* conversation/response_generator.py.  A template is the pair of its text *)
(* without the closing punctuation and that punctuation ("...", ".", "!",  *)
(* "?" or nothing), which is what _enhance_response looks at.              *)
(***************************************************************************)
T(body, end) == [body |-> body, end |-> end]

TemplateText(template) == template.body \o template.end

response_templates ==
  (<<ActGREETING, INITIAL>> :> <<
      T("Hello! I'm your personal assistant. How can I help you today", "?"),
      T("Hi there! What can I do for you", "?"),
      T("Greetings! How may I assist you", "?")>>)
  @@ (<<ActGREETING, IN_PROGRESS>> :> <<
      T("Hello again! How can I help you further", "?"),
      T("Hi! What else can I assist you with", "?"),
      T("Welcome back! What would you like to know", "?")>>)
  @@ (<<ActQUESTION, IN_PROGRESS>> :> <<
      T("That's a great question. Let me think about that", "..."),
      T("I'd be happy to help with that question", "."),
      T("Let me see if I can answer that for you", ".")>>)
  @@ (<<ActREQUEST, IN_PROGRESS>> :> <<
      T("I'll help you with that request", "."),
      T("Sure, I can assist with that", "."),
      T("Let me take care of that for you", ".")>>)
  @@ (<<ActCLARIFICATION, ASKING_CLARIFICATION>> :> <<
      T("I apologize for any confusion. Let me clarify that for you", "."),
      T("Let me explain that more clearly", "."),
      T("I see you need more information. Here's a better explanation", ".")>>)
  @@ (<<ActCONFIRMATION, SEEKING_CONFIRMATION>> :> <<
      T("Thanks for confirming", "!"),
      T("Great, I'll proceed with that", "."),
      T("Perfect, that's helpful to know", ".")>>)
  @@ (<<ActACKNOWLEDGMENT, IN_PROGRESS>> :> <<
      T("I'm glad that was helpful", "!"),
      T("You're welcome! Is there anything else I can help with", "?"),
      T("Happy to assist! What else would you like to know", "?")>>)
  @@ (<<ActCLOSING, CLOSING>> :> <<
      T("Goodbye! Have a wonderful day", "!"),
      T("It was great chatting with you. Take care", "!"),
      T("See you later! Feel free to come back anytime", ".")>>)
  @@ (<<ActERROR, ERROR>> :> <<
      T("I'm sorry, I didn't quite understand that. Could you rephrase", "?"),
      T("I'm having trouble understanding. Could you try again", "?"),
      T("I'm not sure what you mean. Can you explain differently", "?")>>)

response_fallback_templates ==
  <<T("I understand. What else would you like to know", "?"),
    T("Thanks for sharing that. How can I help you further", "?"),
    T("I see. Is there anything specific you'd like me to help with", "?"),
    T("That's interesting. What would you like to do next", "?"),
    T("I'm here to help. What else can I assist you with", "?")>>

\* an optional string is <<>> for None and <<s>> for the string s
None == <<>>
Truthy(opt) == opt # <<>> /\ opt[1] # ""

\* _enhance_response giving the template alone
_enhance_response_template_only(template, llm_response, context) ==
  TemplateText(template)

\* no template holds the {llm_response} slot, so the first branch of the
\* code is never taken
_enhance_response(template, llm_response, context) ==
  IF Truthy(llm_response)
  THEN IF template.end = "..."
       THEN template.body \o llm_response[1]
       ELSE IF template.end \in {".", "!", "?"}
            THEN TemplateText(template) \o " " \o llm_response[1]
            ELSE TemplateText(template) \o ". " \o llm_response[1]
  ELSE TemplateText(template)

generate_response(user_input, llm_response, sm, dialogue_act, r) ==
  LET context == sm.context
      template_key == <<dialogue_act, context.state>>
      templates == IF template_key \in DOMAIN response_templates
                   THEN response_templates[template_key]
                   ELSE response_fallback_templates
      template == choice(templates, r)
  IN _enhance_response(template, llm_response, context)

(***************************************************************************)
(* The inputs of the model.                                                *)
(***************************************************************************)
Txt(toks) == [toks |-> toks, cap |-> FALSE]
Cap(toks) == [toks |-> toks, cap |-> TRUE]

Corpus ==
  { Txt(<<>>),
    Txt(<<"hello">>),
    Txt(<<"bye">>),
    Txt(<<"yes">>),
    Txt(<<"sorry">>),
    Txt(<<"my", "homework", "is", "math">>),
    Txt(<<"is", "the", "sky", "blue", "?">>),
    Cap(<<"i", "need", "help", "with", "my", "homework", ".">>),
    Cap(<<"can", "you", "help", "me", "with", "this", "?">>),
    Cap(<<"please", "help", "me", "with", "this", "task">>),
    Txt(<<"all", "math", "is", "good">>),
    Txt(<<"many", "thanks">>) }

LLMResponses == {None, <<"The weather is sunny.">>}

\* the inputs of Agent.process_input: an exit command, an ambiguous request,
\* a clear request, a planning, a reasoning and a decision request, and a
\* word the sanitizer removes
AgentInputs ==
  { Txt(<<"bye">>),
    Cap(<<"can", "you", "help", "me", "with", "this", "?">>),
    Cap(<<"i", "need", "help", "with", "my", "homework", ".">>),
    Txt(<<"plan", "my", "homework">>),
    Txt(<<"i", "think", "math", "is", "good">>),
    Txt(<<"pick", "the", "blue", "one">>),
    Txt(<<"confirm">>) }

\* utils/validation.py sanitize_input: the words removed from a message
js_keywords == {"alert", "prompt", "confirm", "eval", "settimeout", "setinterval"}

\* validate_message_content on a text of the model, which holds no tag and no
\* quote and is shorter than MESSAGE_CONTENT_MAX_LENGTH: the words of
\* js_keywords are removed and the result is stripped.  The texts of the
\* model hold such a word at their ends only, where strip() removes the
\* blanks the word leaves.
validate_message_content(content) ==
  LET kept == SelectSeq(content.toks, LAMBDA w : w \notin js_keywords)
  IN [toks |-> kept,
      cap |-> IF kept = content.toks THEN content.cap ELSE FALSE]

\* what reaches the recognizer and the detector through the Agent
AgentCorpus == {validate_message_content(t) : t \in AgentInputs}

UserId == "test_user"

\* the pre-instantiated recognizer and detector, as the tables of their
\* results on the texts of the model
dialogue_recognizer == [t \in Corpus \cup AgentCorpus |-> recognize_act(t)]

ambiguity_detector == [t \in Corpus \cup AgentCorpus |-> detect_ambiguities(t)]

(***************************************************************************)
(* conversation/interface.py.  An interface is the record                  *)
(* [state_manager, conversation_history, ambiguity_threshold].             *)
(***************************************************************************)
EnhancedConversationInterface(user_id, uuid, now) ==
  LET m == ConversationStateManager(user_id, uuid, now)
  IN [itf |-> [state_manager |-> m.sm,
               conversation_history |-> <<>>,
               ambiguity_threshold |-> ambiguity_threshold],
      now |-> m.now]

get_conversation_context(itf) ==
  LET context == itf.state_manager.context
  IN [state |-> context.state,
      dialogue_act |-> context.dialogue_act,
      topic |-> context.topic,
      turn_count |-> context.turn_count,
      last_user_input |-> context.last_user_input,
      last_agent_response |-> context.last_agent_response]

\* the trigger without its prefix
bare_trigger(dialogue_act) == dialogue_act

dialogue_act_trigger(dialogue_act) == "dialogue_act:" \o dialogue_act

\* _update_conversation_state with the last branch unguarded: any other act
\* moves the conversation to IN_PROGRESS from every state
_update_conversation_state_unguarded(sm, now, dialogue_act) ==
  LET current_state == sm.context.state
      trigger == dialogue_act_trigger(dialogue_act)
  IN IF dialogue_act = ActGREETING
     THEN IF current_state = INITIAL
          THEN update_state(sm, now, GREETING, trigger)
          ELSE update_state(sm, now, IN_PROGRESS, trigger)
     ELSE IF dialogue_act = ActCLOSING
     THEN update_state(sm, now, CLOSING, trigger)
     ELSE IF dialogue_act = ActCLARIFICATION
     THEN update_state(sm, now, ASKING_CLARIFICATION, trigger)
     ELSE IF dialogue_act = ActCONFIRMATION
     THEN update_state(sm, now, SEEKING_CONFIRMATION, trigger)
     ELSE IF dialogue_act \in {ActQUESTION, ActREQUEST}
     THEN update_state(sm, now, PROVIDING_INFORMATION, trigger)
     ELSE update_state(sm, now, IN_PROGRESS, trigger)

\* _update_conversation_state without the test of the current state under
\* GREETING: a greeting moves the conversation to GREETING from every state
_update_conversation_state_greeting(sm, now, dialogue_act) ==
  LET current_state == sm.context.state
      trigger == dialogue_act_trigger(dialogue_act)
  IN IF dialogue_act = ActGREETING
     THEN update_state(sm, now, GREETING, trigger)
     ELSE IF dialogue_act = ActCLOSING
     THEN update_state(sm, now, CLOSING, trigger)
     ELSE IF dialogue_act = ActCLARIFICATION
     THEN update_state(sm, now, ASKING_CLARIFICATION, trigger)
     ELSE IF dialogue_act = ActCONFIRMATION
     THEN update_state(sm, now, SEEKING_CONFIRMATION, trigger)
     ELSE IF dialogue_act \in {ActQUESTION, ActREQUEST}
     THEN update_state(sm, now, PROVIDING_INFORMATION, trigger)
     ELSE IF current_state = INITIAL
     THEN update_state(sm, now, IN_PROGRESS, trigger)
     ELSE [sm |-> sm, now |-> now, ret |-> FALSE]

\* _update_conversation_state with the act ERROR moving the conversation to
\* the state ERROR
_update_conversation_state_error(sm, now, dialogue_act) ==
  LET current_state == sm.context.state
      trigger == dialogue_act_trigger(dialogue_act)
  IN IF dialogue_act = ActGREETING
     THEN IF current_state = INITIAL
          THEN update_state(sm, now, GREETING, trigger)
          ELSE update_state(sm, now, IN_PROGRESS, trigger)
     ELSE IF dialogue_act = ActCLOSING
     THEN update_state(sm, now, CLOSING, trigger)
     ELSE IF dialogue_act = ActCLARIFICATION
     THEN update_state(sm, now, ASKING_CLARIFICATION, trigger)
     ELSE IF dialogue_act = ActCONFIRMATION
     THEN update_state(sm, now, SEEKING_CONFIRMATION, trigger)
     ELSE IF dialogue_act \in {ActQUESTION, ActREQUEST}
     THEN update_state(sm, now, PROVIDING_INFORMATION, trigger)
     ELSE IF dialogue_act = ActERROR
     THEN update_state(sm, now, ERROR, trigger)
     ELSE IF current_state = INITIAL
     THEN update_state(sm, now, IN_PROGRESS, trigger)
     ELSE [sm |-> sm, now |-> now, ret |-> FALSE]

_update_conversation_state(sm, now, dialogue_act) ==
  LET current_state == sm.context.state
      trigger == dialogue_act_trigger(dialogue_act)
  IN IF dialogue_act = ActGREETING
     THEN IF current_state = INITIAL
          THEN update_state(sm, now, GREETING, trigger)
          ELSE update_state(sm, now, IN_PROGRESS, trigger)
     ELSE IF dialogue_act = ActCLOSING
     THEN update_state(sm, now, CLOSING, trigger)
     ELSE IF dialogue_act = ActCLARIFICATION
     THEN update_state(sm, now, ASKING_CLARIFICATION, trigger)
     ELSE IF dialogue_act = ActCONFIRMATION
     THEN update_state(sm, now, SEEKING_CONFIRMATION, trigger)
     ELSE IF dialogue_act \in {ActQUESTION, ActREQUEST}
     THEN update_state(sm, now, PROVIDING_INFORMATION, trigger)
     ELSE IF current_state = INITIAL
     THEN update_state(sm, now, IN_PROGRESS, trigger)
     ELSE [sm |-> sm, now |-> now, ret |-> FALSE]

interface_fallback_templates ==
  (ActGREETING :> <<"Hello! How can I help you today?">>)
  @@ (ActQUESTION :> <<"That's an interesting question.">>)
  @@ (ActREQUEST :> <<"I'll help you with that.">>)
  @@ (ActSTATEMENT :> <<"I see. Tell me more.">>)
  @@ (ActCLOSING :> <<"Goodbye! Have a great day!">>)
  @@ (ActERROR :> <<"I'm sorry, I didn't understand that.">>)

interface_default_templates == <<"I'm here to help. What can I do for you?">>

\* the pool _generate_template_response draws from
TemplatePool(dialogue_act, state) ==
  LET template_key == <<dialogue_act, state>>
  IN IF template_key \in DOMAIN response_templates
     THEN [i \in 1..Len(response_templates[template_key]) |->
             TemplateText(response_templates[template_key][i])]
     ELSE IF dialogue_act \in DOMAIN interface_fallback_templates
          THEN interface_fallback_templates[dialogue_act]
          ELSE interface_default_templates

\* _generate_template_response falling back to the pool of the Response
\* Generator where the code falls back to its own table
_generate_template_response_generator_pool(sm, dialogue_act, r) ==
  LET template_key == <<dialogue_act, sm.context.state>>
      templates == IF template_key \in DOMAIN response_templates
                   THEN response_templates[template_key]
                   ELSE response_fallback_templates
  IN TemplateText(choice(templates, r))

\* _generate_template_response without its fallbacks: nothing to say when
\* the Response Generator has no pool for the key
_generate_template_response_keyed_only(sm, dialogue_act, r) ==
  LET template_key == <<dialogue_act, sm.context.state>>
  IN IF template_key \in DOMAIN response_templates
     THEN TemplateText(choice(response_templates[template_key], r))
     ELSE ""

_generate_template_response(sm, dialogue_act, r) ==
  choice(TemplatePool(dialogue_act, sm.context.state), r)

\* the filter with the threshold exclusive
high_confidence_exclusive(ambiguities, threshold) ==
  SelectSeq(ambiguities, LAMBDA amb : amb.confidence > threshold)

high_confidence(ambiguities, threshold) ==
  SelectSeq(ambiguities, LAMBDA amb : amb.confidence >= threshold)

\* the number of draws of a call: two for each clarification question, one
\* for the template of a turn that is not ambiguous
NDraws(high) == IF high # <<>> THEN 2 * Min(2, Len(high)) ELSE 1

format_questions(questions) ==
  IF Len(questions) = 1
  THEN questions[1]
  ELSE LET RECURSIVE Lines(_)
           Lines(i) == IF i > Len(questions) THEN ""
                       ELSE (IF i > 1 THEN "\n" ELSE "")
                            \o ToString(i) \o ". " \o questions[i] \o Lines(i + 1)
       IN "I'd like to clarify a few things:\n" \o Lines(1)

\* the first statement of process_input with the turn_count it has read
\* read again when the context is written
_count_turn_reread(sm, now, user_input, turn_count) ==
  update_context(sm, now,
                 [last_user_input |-> user_input,
                  turn_count |-> sm.context.turn_count + 1])

\* the first statement of process_input, once its argument turn_count + 1
\* has been evaluated with the turn_count read from the context
_count_turn(sm, now, user_input, turn_count) ==
  update_context(sm, now,
                 [last_user_input |-> user_input,
                  turn_count |-> turn_count + 1])

\* _answer_turn with the template looked up in the state the turn started
\* from, before the transition
_answer_turn_lookup_first(itf, now, user_input, llm_response, r, dialogue_act, ambiguities) ==
  LET s2 == update_dialogue_act(itf.state_manager, now, dialogue_act)
      high_confidence_ambiguities ==
        high_confidence(ambiguities, itf.ambiguity_threshold)
      clarify == high_confidence_ambiguities # <<>>
      questions == generate_multiple_questions(
                     high_confidence_ambiguities, 2,
                     get_conversation_context([itf EXCEPT !.state_manager = s2.sm]),
                     r)
      s3 == IF clarify
            THEN update_state(s2.sm, s2.now, ASKING_CLARIFICATION, "ambiguity_detected")
            ELSE _update_conversation_state(s2.sm, s2.now, dialogue_act)
      enhanced_response ==
        IF clarify
        THEN format_questions(questions)
        ELSE IF Truthy(llm_response)
             THEN generate_response(user_input, llm_response, s2.sm, dialogue_act, r)
             ELSE _generate_template_response(s2.sm, dialogue_act, r)
      s4 == update_context(s3.sm, s3.now, [last_agent_response |-> enhanced_response])
  IN [sm |-> s4.sm,
      now |-> s4.now,
      rng |-> r + NDraws(high_confidence_ambiguities),
      ret |-> enhanced_response,
      high |-> high_confidence_ambiguities]

\* process_input from the recognition of the act to the update of
\* last_agent_response
_answer_turn(itf, now, user_input, llm_response, r, dialogue_act, ambiguities) ==
  LET s2 == update_dialogue_act(itf.state_manager, now, dialogue_act)
      high_confidence_ambiguities ==
        high_confidence(ambiguities, itf.ambiguity_threshold)
      clarify == high_confidence_ambiguities # <<>>
      questions == generate_multiple_questions(
                     high_confidence_ambiguities, 2,
                     get_conversation_context([itf EXCEPT !.state_manager = s2.sm]),
                     r)
      s3 == IF clarify
            THEN update_state(s2.sm, s2.now, ASKING_CLARIFICATION, "ambiguity_detected")
            ELSE _update_conversation_state(s2.sm, s2.now, dialogue_act)
      enhanced_response ==
        IF clarify
        THEN format_questions(questions)
        ELSE IF Truthy(llm_response)
             THEN generate_response(user_input, llm_response, s3.sm, dialogue_act, r)
             ELSE _generate_template_response(s3.sm, dialogue_act, r)
      s4 == update_context(s3.sm, s3.now, [last_agent_response |-> enhanced_response])
  IN [sm |-> s4.sm,
      now |-> s4.now,
      rng |-> r + NDraws(high_confidence_ambiguities),
      ret |-> enhanced_response,
      high |-> high_confidence_ambiguities]

\* the value is the interface and the clock after the call, the string
\* returned, and what the call saw on the way: the recognized act and the
\* detections at or above the threshold
process_input(itf, now, user_input, llm_response, r) ==
  LET turn(dialogue_act, ambiguities) ==
        LET s1 == _count_turn(itf.state_manager, now, user_input,
                              itf.state_manager.context.turn_count)
            answered(a) ==
              [itf |-> [itf EXCEPT
                          !.state_manager = a.sm,
                          !.conversation_history =
                            itf.conversation_history
                            \o <<[role |-> "user", content |-> user_input],
                                 [role |-> "assistant", content |-> a.ret]>>],
               now |-> a.now,
               rng |-> a.rng,
               ret |-> a.ret,
               dialogue_act |-> dialogue_act,
               high |-> a.high]
        IN answered(_answer_turn([itf EXCEPT !.state_manager = s1.sm], s1.now,
                                 user_input, llm_response, r,
                                 dialogue_act, ambiguities))
  IN turn(dialogue_recognizer[user_input].act, ambiguity_detector[user_input])

\* reset_conversation resetting the State Manager and leaving the mirror
interface_reset_conversation_keeping_mirror(itf, now, uuid) ==
  LET r == reset_conversation(itf.state_manager, now, uuid)
  IN [itf |-> [itf EXCEPT !.state_manager = r.sm],
      now |-> r.now]

interface_reset_conversation(itf, now, uuid) ==
  LET r == reset_conversation(itf.state_manager, now, uuid)
  IN [itf |-> [itf EXCEPT !.state_manager = r.sm,
                          !.conversation_history = <<>>],
      now |-> r.now]

(***************************************************************************)
(* State.                                                                  *)
(*   interface  the EnhancedConversationInterface instance                 *)
(*   manager    the Agent's ConversationManager                            *)
(*   now        the reading of the clock behind datetime.now()             *)
(*   rng        the state of the generator behind random.choice            *)
(*   uuids      the number of identifiers generated so far                 *)
(*   ops        the number of calls made so far                            *)
(*   accepted   the transitions update_state accepted since the creation   *)
(*              of the State Manager or its last reset                     *)
(*   calls      the number of process_input calls on the interface since   *)
(*              its creation or its last reset                             *)
(*   last       the last call: its name, arguments, result, and the state  *)
(*              it started from                                            *)
(*   peer       a second EnhancedConversationInterface instance, where     *)
(*              two are run side by side                                   *)
(*   solo       for each of the two instances, the instance, the clock and *)
(*              the generator as its own calls alone would have left them  *)
(*   asked      the conversation history a caller of                       *)
(*              generate_adaptive_question keeps and passes to it          *)
(*   callers    where two callers run process_input on the same instance   *)
(*              at once: whether they take a lock around the call, who     *)
(*              holds it, and for each caller the statement it is at, its  *)
(*              input and the values it holds in local variables           *)
(***************************************************************************)
VARIABLES interface, manager, now, rng, uuids, ops, accepted, calls, last,
          peer, solo, asked, callers

vars == <<interface, manager, now, rng, uuids, ops, accepted, calls, last,
          peer, solo, asked, callers>>

\* conversation/manager.py: ConversationManager.__init__
ConversationManager(user_id, uuid) ==
  [user_id |-> user_id,
   conversation_history |-> <<>>,
   conversation_id |-> uuid,
   state |-> IN_PROGRESS,
   clarification_context |-> <<>>]

\* Agent.__init__: the ConversationManager, then the ResponseProcessor with
\* its EnhancedConversationInterface
Init ==
  /\ manager = ConversationManager(UserId, 1)
  /\ interface = EnhancedConversationInterface(UserId, 2, 0).itf
  /\ now = EnhancedConversationInterface(UserId, 2, 0).now
  /\ rng \in Seeds
  /\ uuids = 2
  /\ ops = 0
  /\ accepted = <<>>
  /\ calls = 0
  /\ last = [op |-> "init"]
  /\ peer = <<>>
  /\ solo = <<>>
  /\ asked = <<>>
  /\ callers = <<>>

\* the transition a call asked update_state for and update_state accepted:
\* the one whose target differs from the state the call started from
AcceptedTransition(from_state, to_state, trigger) ==
  IF to_state = from_state THEN <<>>
  ELSE <<[from_state |-> from_state, to_state |-> to_state, trigger |-> trigger]>>

\* the trigger process_input passes to update_state
TriggerOf(high, dialogue_act) ==
  IF high # <<>> THEN "ambiguity_detected" ELSE dialogue_act_trigger(dialogue_act)

(***************************************************************************)
(* interface.process_input(user_input, llm_response)                       *)
(***************************************************************************)
ProcessInput(user_input, llm_response) ==
  /\ ops < MaxOps
  /\ \E r \in {process_input(interface, now, user_input, llm_response, rng)} :
        /\ interface' = r.itf
        /\ now' = r.now
        /\ rng' = r.rng
        /\ accepted' = accepted \o AcceptedTransition(
                                    interface.state_manager.context.state,
                                    r.itf.state_manager.context.state,
                                    TriggerOf(r.high, r.dialogue_act))
        /\ last' = [op |-> "process_input",
                    user_input |-> user_input,
                    llm_response |-> llm_response,
                    dialogue_act |-> r.dialogue_act,
                    high |-> r.high,
                    ret |-> r.ret,
                    before |-> interface.state_manager,
                    \* the call before this one was an ambiguous turn
                    after_ambiguous |->
                      last.op = "process_input" /\ last.high # <<>>]
  /\ calls' = calls + 1
  /\ ops' = ops + 1
  /\ UNCHANGED <<manager, uuids, peer, solo, asked, callers>>

(***************************************************************************)
(* interface.reset_conversation()                                          *)
(***************************************************************************)
ResetConversation ==
  /\ ops < MaxOps
  /\ LET r == interface_reset_conversation(interface, now, uuids + 1)
     IN /\ interface' = r.itf
        /\ now' = r.now
  /\ uuids' = uuids + 1
  /\ accepted' = <<>>
  /\ last' = [op |-> "reset_conversation", before |-> interface.state_manager]
  /\ calls' = 0
  /\ ops' = ops + 1
  /\ UNCHANGED <<manager, rng, peer, solo, asked, callers>>

Next ==
  \/ \E user_input \in Corpus, llm_response \in LLMResponses :
       ProcessInput(user_input, llm_response)
  \/ ResetConversation

Spec == Init /\ [][Next]_vars

(***************************************************************************)
(* The State Manager driven directly, as its own tests and any other       *)
(* owner drive it: update_state(new_state, trigger) and                    *)
(* reset_conversation() on interface.state_manager.                        *)
(***************************************************************************)
SMTargets == {IN_PROGRESS, ASKING_CLARIFICATION, CLOSING}

SMTriggers == {"manual"}

UpdateState(new_state, trigger) ==
  /\ Len(accepted) < MaxAccepted
  /\ LET r == update_state(interface.state_manager, now, new_state, trigger)
     IN /\ interface' = [interface EXCEPT !.state_manager = r.sm]
        /\ now' = r.now
        /\ accepted' = accepted \o AcceptedTransition(
                                    interface.state_manager.context.state,
                                    new_state, trigger)
        /\ last' = [op |-> "update_state",
                    new_state |-> new_state,
                    trigger |-> trigger,
                    ret |-> r.ret,
                    before |-> interface.state_manager,
                    \* the call before this one was an accepted
                    \* update_state with the same target
                    twice |-> /\ last.op = "update_state"
                              /\ last.new_state = new_state
                              /\ last.ret]
  /\ UNCHANGED <<manager, rng, uuids, ops, calls, peer, solo, asked, callers>>

SMResetConversation ==
  /\ ops < MaxResets
  /\ LET r == reset_conversation(interface.state_manager, now, uuids + 1)
     IN /\ interface' = [interface EXCEPT !.state_manager = r.sm]
        /\ now' = r.now
  /\ uuids' = uuids + 1
  /\ accepted' = <<>>
  /\ last' = [op |-> "sm_reset_conversation", before |-> interface.state_manager]
  /\ calls' = 0
  /\ ops' = ops + 1
  /\ UNCHANGED <<manager, rng, peer, solo, asked, callers>>

NextSM ==
  \/ \E new_state \in SMTargets, trigger \in SMTriggers :
       UpdateState(new_state, trigger)
  \/ SMResetConversation

SpecSM == Init /\ [][NextSM]_vars

(***************************************************************************)
(* A caller of generate_adaptive_question that keeps the conversation      *)
(* history: it appends what the user says and every question returned.     *)
(* The generator behind random.choice is in any state when the call is     *)
(* made.                                                                   *)
(***************************************************************************)
GenerateAdaptiveQuestion(ambiguity, user_preferences) ==
  /\ Len(asked) < MaxAsked
  /\ \E r \in 0..1 :
       \E q \in {generate_adaptive_question(ambiguity, user_preferences, asked, r)} :
         /\ asked' = Append(asked, [role |-> "assistant", content |-> q.ret])
         /\ rng' = r + 1
         /\ last' = [op |-> "generate_adaptive_question",
                     ret |-> q.ret,
                     rephrased |-> q.rephrased,
                     before |-> asked]
  /\ UNCHANGED <<interface, manager, now, uuids, ops, accepted, calls, peer,
                 solo, callers>>

UserTurn(content) ==
  /\ Len(asked) < MaxAsked
  /\ asked' = Append(asked, [role |-> "user", content |-> content])
  /\ last' = [op |-> "user_turn"]
  /\ UNCHANGED <<interface, manager, now, rng, uuids, ops, accepted, calls,
                 peer, solo, callers>>

NextAdaptive ==
  \/ \E user_preferences \in {<<>>, <<"Direct">>} :
       GenerateAdaptiveQuestion(
         [type |-> ENTITY_AMBIGUITY, confidence |-> 700000], user_preferences)
  \/ UserTurn("this thing")

SpecAdaptive == Init /\ [][NextAdaptive]_vars

(***************************************************************************)
(* Two callers running process_input on the same instance at once, each    *)
(* call going statement by statement: the read of turn_count that is the   *)
(* argument of the first update_context, that update_context, the          *)
(* statements from recognize_act to the update of last_agent_response      *)
(* (taken in one step), and the two appends to the mirror.  The callers    *)
(* either take a lock around the whole call (mutex) or none.               *)
(***************************************************************************)
Callers == {1, 2}

InitShared ==
  /\ manager = ConversationManager(UserId, 1)
  /\ interface = EnhancedConversationInterface(UserId, 2, 0).itf
  /\ now = EnhancedConversationInterface(UserId, 2, 0).now
  /\ rng \in Seeds
  /\ uuids = 2
  /\ ops = 0
  /\ accepted = <<>>
  /\ calls = 0
  /\ last = [op |-> "init"]
  /\ peer = <<>>
  /\ solo = <<>>
  /\ asked = <<>>
  /\ \E mutex \in BOOLEAN :
       callers = [mutex |-> mutex,
                  lock |-> 0,
                  th |-> [c \in Callers |->
                            [pc |-> "idle", user_input |-> Txt(<<>>),
                             turn_count |-> 0, ret |-> ""]]]

\* caller c enters process_input(user_input)
Call(c, user_input) ==
  /\ ops < MaxOps
  /\ callers.th[c].pc = "idle"
  /\ callers.mutex => callers.lock = 0
  /\ callers' = [callers EXCEPT !.lock = IF callers.mutex THEN c ELSE 0,
                                !.th[c].pc = "read",
                                !.th[c].user_input = user_input]
  /\ last' = [op |-> "call", caller |-> c]
  /\ calls' = calls + 1
  /\ ops' = ops + 1
  /\ UNCHANGED <<interface, manager, now, rng, uuids, accepted, peer, solo, asked>>

\* self.state_manager.get_context().turn_count
ReadTurnCount(c) ==
  /\ callers.th[c].pc = "read"
  /\ callers' = [callers EXCEPT
                   !.th[c].pc = "count",
                   !.th[c].turn_count = interface.state_manager.context.turn_count]
  /\ last' = [op |-> "read", caller |-> c]
  /\ UNCHANGED <<interface, manager, now, rng, uuids, ops, accepted, calls,
                 peer, solo, asked>>

\* self.state_manager.update_context(last_user_input=..., turn_count=... + 1)
CountTurn(c) ==
  /\ callers.th[c].pc = "count"
  /\ \E r \in {_count_turn(interface.state_manager, now,
                             callers.th[c].user_input, callers.th[c].turn_count)} :
       /\ interface' = [interface EXCEPT !.state_manager = r.sm]
       /\ now' = r.now
  /\ callers' = [callers EXCEPT !.th[c].pc = "answer"]
  /\ last' = [op |-> "count", caller |-> c, turn_count |-> callers.th[c].turn_count]
  /\ UNCHANGED <<manager, rng, uuids, ops, accepted, calls, peer, solo, asked>>

\* from recognize_act to update_context(last_agent_response=...)
AnswerTurn(c) ==
  /\ callers.th[c].pc = "answer"
  /\ \E dialogue_act \in {dialogue_recognizer[callers.th[c].user_input].act} :
     \E r \in {_answer_turn(interface, now, callers.th[c].user_input, None, rng,
                             dialogue_act,
                             ambiguity_detector[callers.th[c].user_input])} :
       /\ interface' = [interface EXCEPT !.state_manager = r.sm]
       /\ now' = r.now
       /\ rng' = r.rng
       /\ accepted' = accepted \o AcceptedTransition(
                                   interface.state_manager.context.state,
                                   r.sm.context.state,
                                   TriggerOf(r.high, dialogue_act))
       /\ callers' = [callers EXCEPT !.th[c].pc = "append_user",
                                     !.th[c].ret = r.ret]
  /\ last' = [op |-> "answer", caller |-> c]
  /\ UNCHANGED <<manager, uuids, ops, calls, peer, solo, asked>>

\* self.conversation_history.append({"role": "user", ...})
AppendUser(c) ==
  /\ callers.th[c].pc = "append_user"
  /\ interface' = [interface EXCEPT !.conversation_history =
                     Append(@, [role |-> "user",
                                content |-> callers.th[c].user_input])]
  /\ callers' = [callers EXCEPT !.th[c].pc = "append_assistant"]
  /\ last' = [op |-> "append_user", caller |-> c]
  /\ UNCHANGED <<manager, now, rng, uuids, ops, accepted, calls, peer, solo, asked>>

\* self.conversation_history.append({"role": "assistant", ...}) and return
AppendAssistant(c) ==
  /\ callers.th[c].pc = "append_assistant"
  /\ interface' = [interface EXCEPT !.conversation_history =
                     Append(@, [role |-> "assistant",
                                content |-> callers.th[c].ret])]
  /\ callers' = [callers EXCEPT !.lock = 0, !.th[c].pc = "idle"]
  /\ last' = [op |-> "return", caller |-> c, ret |-> callers.th[c].ret]
  /\ UNCHANGED <<manager, now, rng, uuids, ops, accepted, calls, peer, solo, asked>>

NextShared ==
  \E c \in Callers :
    \/ \E user_input \in {Txt(<<"hello">>),
                          Cap(<<"can", "you", "help", "me", "with", "this", "?">>)} :
         Call(c, user_input)
    \/ ReadTurnCount(c)
    \/ CountTurn(c)
    \/ AnswerTurn(c)
    \/ AppendUser(c)
    \/ AppendAssistant(c)

SpecShared == InitShared /\ [][NextShared]_vars

(***************************************************************************)
(* The State Manager asked for any of the eight states, one call after     *)
(* another.                                                                *)
(***************************************************************************)
UpdateStateAny(new_state, trigger) ==
  /\ ops < MaxOps
  /\ \E r \in {update_state(interface.state_manager, now, new_state, trigger)} :
       /\ interface' = [interface EXCEPT !.state_manager = r.sm]
       /\ now' = r.now
       /\ last' = [op |-> "update_state_any",
                   new_state |-> new_state,
                   trigger |-> trigger,
                   ret |-> r.ret,
                   before |-> interface.state_manager]
  /\ accepted' = accepted \o AcceptedTransition(
                               interface.state_manager.context.state,
                               new_state, trigger)
  /\ ops' = ops + 1
  /\ UNCHANGED <<manager, rng, uuids, calls, peer, solo, asked, callers>>

NextSMAny ==
  \E new_state \in ConversationState, trigger \in {"manual", ""} :
    UpdateStateAny(new_state, trigger)

SpecSMAny == Init /\ [][NextSMAny]_vars

(***************************************************************************)
(* The interface under the other calls of its callers: the State Manager   *)
(* of the interface written to a mapping and a State Manager built from    *)
(* that mapping.                                                           *)
(***************************************************************************)
FromDict ==
  /\ ops < MaxOps
  /\ \E data \in {to_dict(interface.state_manager)} :
     \E r \in {from_dict(data, uuids + 1, now)} :
       /\ now' = r.now
       /\ last' = [op |-> "from_dict",
                   data |-> data,
                   ret |-> r.sm,
                   before |-> interface.state_manager]
  /\ uuids' = uuids + 1
  /\ ops' = ops + 1
  /\ UNCHANGED <<interface, manager, rng, accepted, calls, peer, solo, asked, callers>>

\* state_manager.update_context(**kwargs): names that are fields, names that
\* are not, and both
ContextKwargs ==
  { [topic |-> "weather"],
    [foo |-> "bar"],
    [foo |-> "bar", user_intent |-> "ask"],
    "__doc__" :> "notes" }

UpdateContext(kwargs) ==
  /\ ops < MaxOps
  /\ \E r \in {update_context(interface.state_manager, now, kwargs)} :
       /\ interface' = [interface EXCEPT !.state_manager = r.sm]
       /\ now' = r.now
       /\ last' = [op |-> "update_context",
                   kwargs |-> kwargs,
                   ret |-> r.ret,
                   before |-> interface.state_manager]
  /\ ops' = ops + 1
  /\ UNCHANGED <<manager, rng, uuids, accepted, calls, peer, solo, asked, callers>>

\* get_conversation_context counting itself as a turn
GetConversationContextCounted ==
  /\ ops < MaxOps
  /\ interface' = [interface EXCEPT !.state_manager.context.turn_count = @ + 1]
  /\ last' = [op |-> "get_conversation_context",
              ret |-> get_conversation_context(interface'),
              before |-> interface,
              previous |-> IF last.op = "get_conversation_context"
                           THEN <<last.ret>> ELSE <<>>]
  /\ ops' = ops + 1
  /\ UNCHANGED <<manager, now, rng, uuids, accepted, calls, peer, solo, asked, callers>>

\* interface.get_conversation_context(); `previous` is what the call before
\* returned when that call was get_conversation_context too
GetConversationContext ==
  /\ ops < MaxOps
  /\ last' = [op |-> "get_conversation_context",
              ret |-> get_conversation_context(interface),
              before |-> interface,
              previous |-> IF last.op = "get_conversation_context"
                           THEN <<last.ret>> ELSE <<>>]
  /\ ops' = ops + 1
  /\ UNCHANGED <<interface, manager, now, rng, uuids, accepted, calls, peer, solo, asked, callers>>

NextAPI ==
  \/ Next
  \/ FromDict
  \/ \E kwargs \in ContextKwargs : UpdateContext(kwargs)
  \/ GetConversationContext

SpecAPI == Init /\ [][NextAPI]_vars

(***************************************************************************)
(* The recognizer and the detector called on their own.  Both are          *)
(* stateless: a call leaves the interface as it is.                        *)
(***************************************************************************)
\* the texts of these calls: the texts of the turns, two acts with the same
\* score, a question whose first pattern is found inside it and whose last
\* pattern matches it whole, a question that two scans report over the same
\* span, and a question with two detections of the same confidence
Texts ==
  Corpus \cup
  { Txt(<<"bye", "hello">>),
    Txt(<<"it", "is", "what", "?">>),
    Txt(<<"help", "me", "how", "?">>),
    Txt(<<"what", "about", "it", "?">>) }

RecognizeAct(text) ==
  /\ ops < MaxOps
  /\ last' = [op |-> "recognize_act", text |-> text, ret |-> recognize_act(text)]
  /\ ops' = ops + 1
  /\ UNCHANGED <<interface, manager, now, rng, uuids, accepted, calls, peer, solo, asked, callers>>

CalculatePatternScore(act, text) ==
  /\ ops < MaxOps
  /\ last' = [op |-> "_calculate_pattern_score",
              act |-> act,
              text |-> text,
              ret |-> _calculate_pattern_score(text.toks, ActPatterns[act])]
  /\ ops' = ops + 1
  /\ UNCHANGED <<interface, manager, now, rng, uuids, accepted, calls, peer, solo, asked, callers>>

\* `scanned` is the list the three scans produce, before the duplicates are
\* removed
DetectAmbiguities(text) ==
  /\ ops < MaxOps
  /\ last' = [op |-> "detect_ambiguities",
              text |-> text,
              scanned |-> PatternScan(text)
                          \o _detect_keyword_ambiguities(text_lower(text))
                          \o _detect_dialogue_act_ambiguity(text),
              ret |-> detect_ambiguities(text)]
  /\ ops' = ops + 1
  /\ UNCHANGED <<interface, manager, now, rng, uuids, accepted, calls, peer, solo, asked, callers>>

NextText ==
  \/ \E text \in Texts : RecognizeAct(text)
  \/ \E act \in DOMAIN ActPatterns, text \in Texts : CalculatePatternScore(act, text)
  \/ \E text \in Texts : DetectAmbiguities(text)

SpecText == Init /\ [][NextText]_vars

(***************************************************************************)
(* Two interface instances in one process, each driven by its own caller.  *)
(* The clock, the identifiers and the generator of the random module       *)
(* belong to the process; the recognizer, the detector and the two         *)
(* generators of templates are shared objects that no call writes.         *)
(***************************************************************************)
\* EnhancedConversationInterface("test_user") and then
\* EnhancedConversationInterface("other_user")
InitPair ==
  LET first == EnhancedConversationInterface(UserId, 2, 0)
      second == EnhancedConversationInterface("other_user", 3, first.now)
  IN /\ manager = ConversationManager(UserId, 1)
     /\ interface = first.itf
     /\ peer = second.itf
     /\ now = second.now
     /\ rng \in Seeds
     /\ uuids = 3
     /\ ops = 0
     /\ accepted = <<>>
     /\ calls = 0
     /\ last = [op |-> "init"]
     /\ solo = [i \in {1, 2} |->
                  [itf |-> IF i = 1 THEN first.itf ELSE second.itf,
                   now |-> second.now,
                   rng |-> rng]]
     /\ asked = <<>>
     /\ callers = <<>>

\* process_input on instance i with the conversation_history list being one
\* list that both instances hold
ProcessInputOnSharedHistory(i, user_input) ==
  /\ ops < MaxOps
  /\ \E r \in {process_input(IF i = 1 THEN interface ELSE peer,
                              now, user_input, None, rng)},
        s \in {process_input(solo[i].itf, solo[i].now, user_input, None,
                              solo[i].rng)} :
       /\ interface' = IF i = 1 THEN r.itf
                       ELSE [interface EXCEPT !.conversation_history =
                               r.itf.conversation_history]
       /\ peer' = IF i = 2 THEN r.itf
                  ELSE [peer EXCEPT !.conversation_history =
                          r.itf.conversation_history]
       /\ now' = r.now
       /\ rng' = r.rng
       /\ solo' = [solo EXCEPT ![i] = [itf |-> s.itf, now |-> s.now, rng |-> s.rng]]
       /\ last' = [op |-> "process_input", instance |-> i,
                   user_input |-> user_input, ret |-> r.ret,
                   before |-> <<interface, peer>>]
  /\ ops' = ops + 1
  /\ UNCHANGED <<manager, uuids, accepted, calls, asked, callers>>

\* process_input(user_input) on instance i
ProcessInputOn(i, user_input) ==
  /\ ops < MaxOps
  /\ \E r \in {process_input(IF i = 1 THEN interface ELSE peer,
                              now, user_input, None, rng)},
        s \in {process_input(solo[i].itf, solo[i].now, user_input, None,
                              solo[i].rng)} :
       /\ interface' = IF i = 1 THEN r.itf ELSE interface
       /\ peer' = IF i = 2 THEN r.itf ELSE peer
       /\ now' = r.now
       /\ rng' = r.rng
       /\ solo' = [solo EXCEPT ![i] = [itf |-> s.itf, now |-> s.now, rng |-> s.rng]]
       /\ last' = [op |-> "process_input", instance |-> i,
                   user_input |-> user_input, ret |-> r.ret,
                   before |-> <<interface, peer>>]
  /\ ops' = ops + 1
  /\ UNCHANGED <<manager, uuids, accepted, calls, asked, callers>>

\* reset_conversation() on instance i
ResetConversationOn(i) ==
  /\ ops < MaxOps
  /\ \E r \in {interface_reset_conversation(IF i = 1 THEN interface ELSE peer,
                                             now, uuids + 1)},
        s \in {interface_reset_conversation(solo[i].itf, solo[i].now, uuids + 1)} :
       /\ interface' = IF i = 1 THEN r.itf ELSE interface
       /\ peer' = IF i = 2 THEN r.itf ELSE peer
       /\ now' = r.now
       /\ solo' = [solo EXCEPT ![i] = [itf |-> s.itf, now |-> s.now, rng |-> @.rng]]
       /\ last' = [op |-> "reset_conversation", instance |-> i,
                   before |-> <<interface, peer>>]
  /\ uuids' = uuids + 1
  /\ ops' = ops + 1
  /\ UNCHANGED <<manager, rng, accepted, calls, asked, callers>>

NextPair ==
  \/ \E i \in {1, 2},
        user_input \in { Txt(<<"hello">>),
                         Txt(<<"bye">>),
                         Txt(<<"my", "homework", "is", "math">>),
                         Cap(<<"can", "you", "help", "me", "with", "this", "?">>) } :
       ProcessInputOn(i, user_input)
  \/ \E i \in {1, 2} : ResetConversationOn(i)

SpecPair == InitPair /\ [][NextPair]_vars

(***************************************************************************)
(* The Agent: core/agent.py Agent.process_input over its                   *)
(* ConversationManager and the EnhancedConversationInterface of its        *)
(* ResponseProcessor.  The planning, reasoning and decision engines, the   *)
(* LLM service, the error recovery and the feedback store are the          *)
(* environment of the call: what they hand back is an input of the action. *)
(* The memory store, the metrics and the log are written and never read    *)
(* by the call and are not part of the state.                              *)
(***************************************************************************)

\* core/request_classifier.py: the keyword lists
planning_keywords ==
  { <<"plan">>, <<"schedule">>, <<"organize">>, <<"break", "down">>,
    <<"steps", "to">>, <<"how", "to">>, <<"need", "to", "do">>,
    <<"tasks", "for">>, <<"project", "plan">> }

reasoning_keywords ==
  { <<"reason">>, <<"think">>, <<"conclude">>, <<"deduce">>, <<"infer">>,
    <<"logic">>, <<"conclusion">>, <<"because">>, <<"therefore">>, <<"thus">> }

decision_tree_keywords ==
  { <<"decide">>, <<"choose">>, <<"select">>, <<"pick">>, <<"which", "one">>,
    <<"what", "should", "I", "do">>, <<"conflict">>, <<"schedule">>,
    <<"priority">> }

any_keyword(keywords, user_input) ==
  \E keyword \in keywords : Contains(text_lower(user_input), Chars(keyword))

is_planning_request(user_input) == any_keyword(planning_keywords, user_input)

is_reasoning_request(user_input) == any_keyword(reasoning_keywords, user_input)

is_decision_tree_request(user_input) == any_keyword(decision_tree_keywords, user_input)

\* conversation/manager.py
is_exit_command(user_input) ==
  text_lower(user_input) \in {Chars(<<"quit">>), Chars(<<"exit">>), Chars(<<"bye">>)}

add_message(mgr, role, content, id) ==
  [mgr EXCEPT !.conversation_history =
                 @ \o <<[role |-> role, content |-> content, id |-> id]>>]

get_recent_history(mgr) == Last(10, mgr.conversation_history)

set_state(mgr, state) == [mgr EXCEPT !.state = state]

get_state(mgr) == mgr.state

\* Agent._handle_clarification_response: the manager after it and the reply
acknowledgment == "Thank you for the clarification. "

follow_up == "How else can I help you?"

_handle_clarification_response(mgr, user_input) ==
  [manager |-> set_state(mgr, IN_PROGRESS),
   response |-> acknowledgment \o follow_up]

\* what the engines and the LLM service hand back: a text, or an exception
\* of the LLM service
RawResponse == "The weather is sunny."

Outcomes == {"ok", "LLMException", "Exception"}

\* core/error_handler.py: the replies of the two handlers
handle_llm_exception ==
  "I'm sorry, but I encountered an error while processing your request. Please try again."

handle_unexpected_exception ==
  "I'm sorry, but I encountered an unexpected error. Please try again."

\* core/response_processor.py adapt_response_based_on_feedback, `adapt`
\* telling whether the feedback store asks for an adaptation
adaptation_suggestion == "be concise"

adapt_response_based_on_feedback(response, adapt) ==
  IF adapt
  THEN "[Adapted based on feedback: " \o adaptation_suggestion \o "] " \o response
  ELSE response

\* the answers of the manager and of the classifier on the texts of the
\* model, as tables
exit_commands == [t \in AgentCorpus |-> is_exit_command(t)]

request_classifier ==
  [t \in AgentCorpus |->
     [planning |-> is_planning_request(t),
      reasoning |-> is_reasoning_request(t),
      decision_tree |-> is_decision_tree_request(t)]]

\* the branch of Agent.process_input a validated input takes
RouteOf(mgr, validated_input, outcome) ==
  LET branch(is_exit, is_request) ==
        IF is_exit THEN "exit"
        ELSE IF get_state(mgr) = ASKING_CLARIFICATION THEN "clarification"
        ELSE IF is_request.planning THEN "planning"
        ELSE IF is_request.reasoning THEN "reasoning"
        ELSE IF is_request.decision_tree THEN "decision_tree"
        ELSE IF outcome = "ok" THEN "llm"
        ELSE "error"
  IN branch(exit_commands[validated_input], request_classifier[validated_input])

\* the routes that end in response_processor.enhance_response
Enhanced == {"planning", "reasoning", "decision_tree", "llm"}

AgentProcessInput(user_input, outcome, adapt) ==
  /\ ops < MaxOps
  /\ \E validated_input \in {validate_message_content(user_input)} :
     \E route \in {RouteOf(add_message(manager, "user", validated_input, uuids + 1),
                           validated_input, outcome)} :
     \E r \in {process_input(interface, now, validated_input, <<RawResponse>>, rng)} :
       LET m1 == add_message(manager, "user", validated_input, uuids + 1)
           on_llm_path == route \in {"llm", "error"}
           recent_history == get_recent_history(m1)
           n == Len(recent_history)
           previous_response_id ==
             IF n >= 2 /\ recent_history[n - 1].role = "assistant"
             THEN <<recent_history[n - 1].id>> ELSE None
           adapted == on_llm_path /\ previous_response_id # None /\ adapt
           c == _handle_clarification_response(m1, validated_input)
           m2 == IF route = "clarification" THEN c.manager ELSE m1
           reply ==
             IF route = "exit" THEN "Goodbye! Have a great day!"
             ELSE IF route = "clarification" THEN c.response
             ELSE IF route \in Enhanced THEN r.ret
             ELSE IF outcome = "LLMException" THEN handle_llm_exception
             ELSE handle_unexpected_exception
           response == adapt_response_based_on_feedback(reply, adapted)
       IN \* the inputs that the branch taken does not read are fixed
          /\ route \notin {"llm", "error"} => outcome = "ok"
          /\ ~(on_llm_path /\ previous_response_id # None) => ~adapt
          /\ manager' = add_message(m2, "assistant", response, uuids + 2)
          /\ IF route \in Enhanced
             THEN /\ interface' = r.itf
                  /\ now' = r.now
                  /\ rng' = r.rng
                  /\ accepted' = accepted \o AcceptedTransition(
                                     interface.state_manager.context.state,
                                     r.itf.state_manager.context.state,
                                     TriggerOf(r.high, r.dialogue_act))
             ELSE UNCHANGED <<interface, now, rng, accepted>>
          /\ calls' = IF route \in Enhanced THEN calls + 1 ELSE calls
          /\ last' = [op |-> "agent_process_input",
                      user_input |-> user_input,
                      route |-> route,
                      response |-> response,
                      adapted |-> adapted,
                      \* the call answered an ambiguous input with a
                      \* clarification question
                      clarification_asked |-> route \in Enhanced /\ r.high # <<>>,
                      \* and so did the call before it
                      after_clarification |->
                        last.op = "agent_process_input" /\ last.clarification_asked]
  /\ uuids' = uuids + 2
  /\ ops' = ops + 1
  /\ UNCHANGED <<peer, solo, asked, callers>>

NextAgent ==
  \E user_input \in AgentInputs, outcome \in Outcomes, adapt \in BOOLEAN :
    AgentProcessInput(user_input, outcome, adapt)

SpecAgent == Init /\ [][NextAgent]_vars

(***************************************************************************)
(* Properties.  Each is stated over the state the last call left and what  *)
(* `last` recorded of the call; the recognizer and the detector are read   *)
(* from their tables, not from what process_input reported.                *)
(***************************************************************************)
Ctx == interface.state_manager.context

History == interface.state_manager.state_history

Turn == last.op = "process_input"

\* some detection of the text has a confidence of 0.6 or more
Ambiguous(user_input) ==
  \E i \in DOMAIN ambiguity_detector[user_input] :
    ambiguity_detector[user_input][i].confidence >= ambiguity_threshold

ActOf(user_input) == dialogue_recognizer[user_input].act

\* a history entry without its timestamp
Entry(e) ==
  [from_state |-> e.from_state, to_state |-> e.to_state, trigger |-> e.trigger]

\* the history `after` is the history `before` with one entry appended and
\* the oldest dropped when that makes more than ten
OneAppended(before, after) ==
  /\ after # <<>>
  /\ IF Len(before) < 10
     THEN after = before \o <<after[Len(after)]>>
     ELSE after = SubSeq(before, 2, Len(before)) \o <<after[Len(after)]>>

\* C1: after every process_input call, if some detection of the input has
\* confidence >= 0.6 the state is ASKING_CLARIFICATION and the clarification
\* branch was taken, whatever the act, the state before and llm_response;
\* if no detection reaches 0.6 the branch was not taken: nothing was recorded
\* with the trigger "ambiguity_detected"
C1_ClarificationIffThreshold ==
  Turn =>
    IF Ambiguous(last.user_input)
    THEN /\ Ctx.state = ASKING_CLARIFICATION
         /\ last.high # <<>>
         /\ \/ History = last.before.state_history
            \/ /\ OneAppended(last.before.state_history, History)
               /\ History[Len(History)].trigger = "ambiguity_detected"
    ELSE /\ last.high = <<>>
         /\ \/ History = last.before.state_history
            \/ History[Len(History)].trigger # "ambiguity_detected"

\* C1 witness: an input whose best detection is exactly 0.6, passed with an
\* llm_response in state CLOSING, has left the state ASKING_CLARIFICATION
C1_Witness ==
  /\ Turn
  /\ last.user_input = Txt(<<"all", "math", "is", "good">>)
  /\ \A i \in DOMAIN ambiguity_detector[last.user_input] :
       ambiguity_detector[last.user_input][i].confidence <= ambiguity_threshold
  /\ last.llm_response # None
  /\ last.before.context.state = CLOSING
  /\ Ctx.state = ASKING_CLARIFICATION

\* C2: on a turn with no detection >= 0.6 and an act among GREETING,
\* CLOSING, CLARIFICATION, CONFIRMATION, QUESTION, REQUEST the state after
\* is the one the table gives for the act and the state before, and a change
\* of state is recorded as (state before, state after, "dialogue_act:<act>")
C2_StateTable ==
  LET act == ActOf(last.user_input)
      before == last.before.context.state
      target ==
        CASE act = ActGREETING -> IF before = INITIAL THEN GREETING ELSE IN_PROGRESS
          [] act = ActCLOSING -> CLOSING
          [] act = ActCLARIFICATION -> ASKING_CLARIFICATION
          [] act = ActCONFIRMATION -> SEEKING_CONFIRMATION
          [] act \in {ActQUESTION, ActREQUEST} -> PROVIDING_INFORMATION
  IN (/\ Turn
      /\ ~Ambiguous(last.user_input)
      /\ act \in {ActGREETING, ActCLOSING, ActCLARIFICATION, ActCONFIRMATION,
                  ActQUESTION, ActREQUEST})
     => /\ Ctx.state = target
        /\ IF target = before
           THEN History = last.before.state_history
           ELSE /\ OneAppended(last.before.state_history, History)
                /\ Entry(History[Len(History)]) =
                     [from_state |-> before,
                      to_state |-> target,
                      trigger |-> "dialogue_act:" \o act]
                /\ Ctx.previous_state = before

\* C2 witness: a greeting in a state other than INITIAL has moved the
\* conversation to IN_PROGRESS and recorded it with "dialogue_act:greeting"
C2_Witness ==
  /\ Turn
  /\ ~Ambiguous(last.user_input)
  /\ ActOf(last.user_input) = ActGREETING
  /\ last.before.context.state = PROVIDING_INFORMATION
  /\ Ctx.state = IN_PROGRESS
  /\ History[Len(History)].trigger = "dialogue_act:greeting"

\* C3: on a turn with no detection >= 0.6 and act STATEMENT, ACKNOWLEDGMENT
\* or ERROR, the state INITIAL becomes IN_PROGRESS and from every other
\* state the turn leaves state, previous_state and the history unchanged
C3_OtherActs ==
  (/\ Turn
   /\ ~Ambiguous(last.user_input)
   /\ ActOf(last.user_input) \in {ActSTATEMENT, ActACKNOWLEDGMENT, ActERROR})
  => IF last.before.context.state = INITIAL
     THEN Ctx.state = IN_PROGRESS
     ELSE /\ Ctx.state = last.before.context.state
          /\ Ctx.previous_state = last.before.context.previous_state
          /\ History = last.before.state_history

\* C3 witness: a statement in state CLOSING, with a non-empty history, has
\* left the state CLOSING
C3_Witness ==
  /\ Turn
  /\ ~Ambiguous(last.user_input)
  /\ ActOf(last.user_input) = ActSTATEMENT
  /\ last.before.context.state = CLOSING
  /\ last.before.state_history # <<>>
  /\ Ctx.state = CLOSING

\* C4: update_state(s, trigger) with s the current state returns false and
\* leaves state, previous_state, updated_at and the history unchanged; a
\* call with another target returns true and appends one entry; so the
\* second of two consecutive calls with the same target appends nothing
C4_SameStateNoOp ==
  last.op = "update_state" =>
    /\ IF last.new_state = last.before.context.state
       THEN /\ last.ret = FALSE
            /\ Ctx.state = last.before.context.state
            /\ Ctx.previous_state = last.before.context.previous_state
            /\ Ctx.updated_at = last.before.context.updated_at
            /\ History = last.before.state_history
       ELSE /\ last.ret = TRUE
            /\ OneAppended(last.before.state_history, History)
    /\ last.twice =>
         /\ last.ret = FALSE
         /\ History = last.before.state_history
         /\ History[Len(History)].to_state = last.new_state

\* C4 witness: the second of two consecutive update_state calls with the
\* target CLOSING has returned false
C4_Witness ==
  /\ last.op = "update_state"
  /\ last.twice
  /\ last.new_state = CLOSING
  /\ last.ret = FALSE
  /\ Len(History) = 2

\* C5: the history has at most 10 entries and is the last min(n, 10) of the
\* n transitions accepted since the creation or the last reset, in the order
\* they occurred
C5_HistoryBounded ==
  LET n == Len(accepted)
      k == IF n < 10 THEN n ELSE 10
  IN /\ Len(History) <= 10
     /\ Len(History) = k
     /\ \A i \in 1..k : Entry(History[i]) = accepted[n - k + i]
     /\ \A i \in 1..(k - 1) : History[i].timestamp < History[i + 1].timestamp

\* C5 witness: eleven transitions were accepted and the history holds ten,
\* the first accepted transition being the one evicted
C5_Witness ==
  /\ Len(accepted) = 11
  /\ Len(History) = 10
  /\ Entry(History[1]) = accepted[2]
  /\ accepted[1].from_state = INITIAL

\* C6: turn_count is the number of process_input calls on the interface
\* since its creation or its last reset
C6_TurnCount == Ctx.turn_count = calls

\* C6 witness: a turn on the clarification branch after a turn on the normal
\* branch has left turn_count at 2
C6_Witness ==
  /\ Turn
  /\ Ambiguous(last.user_input)
  /\ ~last.after_ambiguous
  /\ last.before.context.turn_count = 1
  /\ Ctx.turn_count = 2

\* C7: after reset_conversation on the interface turn_count is 0, state and
\* previous_state are INITIAL, the history and the mirror are empty, user_id
\* is the same and conversation_id is new; the interface is the one a fresh
\* construction with that identifier at that time gives, so the turns after
\* it go as on a fresh interface
C7_Reset ==
  last.op = "reset_conversation" =>
    /\ Ctx.turn_count = 0
    /\ Ctx.state = INITIAL
    /\ Ctx.previous_state = INITIAL
    /\ History = <<>>
    /\ interface.conversation_history = <<>>
    /\ Ctx.user_id = last.before.context.user_id
    /\ interface.state_manager.user_id = last.before.user_id
    /\ Ctx.conversation_id # last.before.context.conversation_id
    /\ interface.state_manager.conversation_id # last.before.conversation_id
    /\ interface.state_manager.conversation_id = Ctx.conversation_id
    /\ interface = EnhancedConversationInterface(
                     last.before.user_id, Ctx.conversation_id,
                     Ctx.created_at - 1).itf

\* C7 witness: a reset after two turns that had left a history
C7_Witness ==
  /\ last.op = "reset_conversation"
  /\ last.before.context.turn_count = 2
  /\ Len(last.before.state_history) = 2
  /\ Ctx.turn_count = 0

\* the premise of C8: a turn recognized as REQUEST, no detection >= 0.6, no
\* llm_response
RequestTurn ==
  /\ Turn
  /\ ~Ambiguous(last.user_input)
  /\ ActOf(last.user_input) = ActREQUEST
  /\ ~Truthy(last.llm_response)

\* the strings of the pool of response_templates keyed by `key`, none when
\* there is no such key
KeyedPool(key) ==
  IF key \in DOMAIN response_templates
  THEN {TemplateText(response_templates[key][i]) :
          i \in DOMAIN response_templates[key]}
  ELSE {}

\* C8 as stated: such a turn leaves the state PROVIDING_INFORMATION and
\* returns a string of the pool keyed (REQUEST, PROVIDING_INFORMATION)
C8_KeyedPool ==
  RequestTurn =>
    /\ Ctx.state = PROVIDING_INFORMATION
    /\ last.ret \in KeyedPool(<<ActREQUEST, PROVIDING_INFORMATION>>)

\* C8 amended: such a turn leaves the state PROVIDING_INFORMATION; no pool
\* is keyed (REQUEST, PROVIDING_INFORMATION), and the string returned is
\* one of the pool of the interface keyed by the act REQUEST alone
C8_ActPool ==
  RequestTurn =>
    /\ Ctx.state = PROVIDING_INFORMATION
    /\ KeyedPool(<<ActREQUEST, PROVIDING_INFORMATION>>) = {}
    /\ \E i \in DOMAIN interface_fallback_templates[ActREQUEST] :
         last.ret = interface_fallback_templates[ActREQUEST][i]

\* C8 witness: a clear request without llm_response, made in state
\* IN_PROGRESS, was answered from the pool keyed by REQUEST
C8_Witness ==
  /\ RequestTurn
  /\ last.before.context.state = IN_PROGRESS
  /\ Ctx.state = PROVIDING_INFORMATION
  /\ last.ret = "I'll help you with that."

\* the premise of C9: the turn before put or kept the conversation in
\* ASKING_CLARIFICATION by an ambiguity, and this turn has no detection
\* >= 0.6
ClarificationAnswered ==
  /\ Turn
  /\ last.after_ambiguous
  /\ last.before.context.state = ASKING_CLARIFICATION
  /\ ~Ambiguous(last.user_input)

C10_ClarificationRouted ==
  (/\ last.op = "agent_process_input"
   /\ last.after_clarification
   /\ last.route # "exit")
  => /\ last.route = "clarification"
     /\ last.response = "Thank you for the clarification. " \o follow_up
     /\ get_state(manager) = IN_PROGRESS

\* C11: a State Manager built by from_dict from the to_dict of a State
\* Manager has the same context, field by field, and the same to_dict
C11_RoundTrip ==
  last.op = "from_dict" =>
    /\ \A f \in ContextFields :
         last.ret.context[f] = interface.state_manager.context[f]
    /\ DOMAIN last.ret.context = ContextFields
    /\ to_dict(last.ret) = to_dict(interface.state_manager)

\* C11 witness: the round trip of a State Manager that has left INITIAL,
\* created on a half second and last updated on a whole second
C11_Witness ==
  /\ last.op = "from_dict"
  /\ Ctx.state # INITIAL
  /\ Ctx.turn_count > 0
  /\ datetime(Ctx.created_at).microsecond # 0
  /\ datetime(Ctx.updated_at).microsecond = 0
  /\ last.ret.context.updated_at = Ctx.updated_at

\* the scores of the acts on the text of the last call, and the largest
ActScore(act) == _calculate_pattern_score(last.text.toks, ActPatterns[act])

MaxActScore == CHOOSE m \in {ActScore(a) : a \in DOMAIN ActPatterns} :
                 \A a \in DOMAIN ActPatterns : ActScore(a) <= m

TableOrder ==
  <<ActGREETING, ActCLOSING, ActQUESTION, ActREQUEST, ActCONFIRMATION,
    ActCLARIFICATION, ActACKNOWLEDGMENT>>

\* C12: recognize_act returns (ERROR, 0.0) for the blank text; for any other
\* text the first act in table order among those with the largest pattern
\* score, with that score, when some act scores above 0, and (STATEMENT, 0.1)
\* when none does; never ERROR for a text that is not blank, and always a
\* confidence within [0, 1]
C12_RecognizeAct ==
  last.op = "recognize_act" =>
    /\ last.ret.score >= 0 /\ last.ret.score <= 1000000
    /\ IF last.text.toks = <<>>
       THEN last.ret = [act |-> ActERROR, score |-> 0]
       ELSE /\ last.ret.act # ActERROR
            /\ IF MaxActScore > 0
               THEN \E k \in DOMAIN TableOrder :
                      /\ ActScore(TableOrder[k]) = MaxActScore
                      /\ \A j \in 1..(k - 1) : ActScore(TableOrder[j]) < MaxActScore
                      /\ last.ret = [act |-> TableOrder[k], score |-> MaxActScore]
               ELSE last.ret = [act |-> ActSTATEMENT, score |-> 100000]

\* C12 witness: a text on which CLOSING, found first in the text, and
\* GREETING, first in the table, score the same, recognized as GREETING
C12_Witness ==
  /\ last.op = "recognize_act"
  /\ last.text.toks = <<"bye", "hello">>
  /\ ActScore(ActCLOSING) = ActScore(ActGREETING)
  /\ ActScore(ActGREETING) = MaxActScore
  /\ last.ret.act = ActGREETING

\* C13: the score of an act on a text is 0.9 if some pattern of the act
\* matches the whole text, otherwise 0.7 if some pattern of the act is found
\* in the text, otherwise 0.0
C13_ScoreRule ==
  last.op = "_calculate_pattern_score" =>
    LET patterns == ActPatterns[last.act]
        toks == last.text.toks
    IN last.ret =
         IF \E k \in DOMAIN patterns : fullmatch(patterns[k], toks) THEN 900000
         ELSE IF \E k \in DOMAIN patterns : search(patterns[k], toks) THEN 700000
         ELSE 0

\* the triple that tells two detections apart, and the place of the first
\* detection with the triple of `a` among those the scans produced
Triple(a) == <<a.position[1], a.position[2], a.type>>

FirstScanned(a) ==
  CHOOSE k \in DOMAIN last.scanned :
    /\ Triple(last.scanned[k]) = Triple(a)
    /\ \A j \in 1..(k - 1) : Triple(last.scanned[j]) # Triple(a)

\* C14: detect_ambiguities returns the detections by descending confidence,
\* those of the same confidence in the order the scans produced them, no two
\* with the same (start, end, type), each being the first the scans produced
\* with its triple
C14_UniqueSorted ==
  last.op = "detect_ambiguities" =>
    LET ret == last.ret
    IN /\ \A i, j \in DOMAIN ret :
            i < j => /\ ret[i].confidence >= ret[j].confidence
                     /\ Triple(ret[i]) # Triple(ret[j])
                     /\ ret[i].confidence = ret[j].confidence
                          => FirstScanned(ret[i]) < FirstScanned(ret[j])
       /\ \A i \in DOMAIN ret : ret[i] = last.scanned[FirstScanned(ret[i])]
       /\ \A k \in DOMAIN last.scanned :
            \E i \in DOMAIN ret : Triple(ret[i]) = Triple(last.scanned[k])

\* C14 witness: a question that the pattern scan and the dialogue-act scan
\* both report over its whole span with the same type; the detection of the
\* pattern scan is the one returned
C14_Witness ==
  /\ last.op = "detect_ambiguities"
  /\ Len(last.scanned) = 2
  /\ Triple(last.scanned[1]) = Triple(last.scanned[2])
  /\ last.scanned[1].confidence # last.scanned[2].confidence
  /\ last.ret = <<last.scanned[1]>>

\* the pool generate_response draws its template from
GeneratorPool(dialogue_act, state) ==
  IF <<dialogue_act, state>> \in DOMAIN response_templates
  THEN response_templates[<<dialogue_act, state>>]
  ELSE response_fallback_templates

\* the pool generate_clarification_question draws its template from
QuestionPool(type) ==
  IF type \in DOMAIN question_templates
  THEN question_templates[type]
  ELSE question_fallback_templates

\* C15: process_input returns a string that is not empty whatever the act
\* recognized (ERROR for the blank input included), the state, the outcome of
\* the detection and the presence of llm_response; for every act, state and
\* type of ambiguity the pool a template is drawn from is not empty
C15_NonEmptyResponse ==
  /\ Turn => last.ret # ""
  /\ \A dialogue_act \in DialogueAct, state \in ConversationState :
       /\ TemplatePool(dialogue_act, state) # <<>>
       /\ \A i \in DOMAIN TemplatePool(dialogue_act, state) :
            TemplatePool(dialogue_act, state)[i] # ""
       /\ GeneratorPool(dialogue_act, state) # <<>>
  /\ \A type \in {ENTITY_AMBIGUITY, SCOPE_AMBIGUITY, INTENT_AMBIGUITY,
                   TEMPORAL_AMBIGUITY, QUANTIFIER_AMBIGUITY,
                   REFERENCE_AMBIGUITY, CONTEXT_AMBIGUITY, "other"} :
       /\ QuestionPool(type) # <<>>
       /\ \A i \in DOMAIN QuestionPool(type) : QuestionPool(type)[i] # ""
  /\ \A i \in DOMAIN contextual_templates : contextual_templates[i] # ""

\* C15 witness: the blank input, recognized as ERROR, answered without an
\* llm_response in a state for which the Response Generator has no pool
C15_Witness ==
  /\ Turn
  /\ last.user_input.toks = <<>>
  /\ last.llm_response = None
  /\ last.dialogue_act = ActERROR
  /\ <<ActERROR, Ctx.state>> \notin DOMAIN response_templates
  /\ Ctx.state = CLOSING
  /\ last.ret = "I'm sorry, I didn't understand that."

\* C16: after every process_input call, on the clarification branch as on
\* the normal branch, the dialogue_act of the context is the act the
\* recognizer gives to the input of that call
C16_ActOfThisTurn == Turn => Ctx.dialogue_act = ActOf(last.user_input)

\* C16 witness: a turn on the clarification branch whose act differs from
\* the act the context held before it
C16_Witness ==
  /\ Turn
  /\ Ambiguous(last.user_input)
  /\ Ctx.state = ASKING_CLARIFICATION
  /\ last.before.context.turn_count > 0
  /\ last.before.context.dialogue_act # ActOf(last.user_input)
  /\ Ctx.dialogue_act = ActOf(last.user_input)

\* C17: update_context returns true iff one of the names passed is a field of
\* ConversationContext; when none is, it returns false and leaves the
\* context, updated_at included, and the transition history as they were;
\* the names passed that are fields are set
C17_UpdateContext ==
  last.op = "update_context" =>
    LET fields == DOMAIN last.kwargs \cap ContextFields
    IN /\ last.ret = (fields # {})
       /\ fields = {} =>
            /\ Ctx = last.before.context
            /\ History = last.before.state_history
       /\ \A name \in fields : Ctx[name] = last.kwargs[name]

\* C19: get_conversation_context leaves the context, the transition history
\* and the conversation-history mirror as they were, and a call that follows
\* another with nothing in between returns the same mapping
C19_ReadOnly ==
  last.op = "get_conversation_context" =>
    /\ Ctx = last.before.state_manager.context
    /\ History = last.before.state_manager.state_history
    /\ interface.conversation_history = last.before.conversation_history
    /\ last.previous # <<>> => last.ret = last.previous[1]

\* C19 witness: two calls in a row after a turn
C19_Witness ==
  /\ last.op = "get_conversation_context"
  /\ last.previous # <<>>
  /\ last.ret.turn_count = 1
  /\ last.ret.state # INITIAL
  /\ Len(interface.conversation_history) = 2

\* C20: an ambiguous turn taken in ASKING_CLARIFICATION appends nothing to
\* the transition history and leaves previous_state as it was; an ambiguous
\* turn taken in any other state appends exactly one entry, from that state
\* to ASKING_CLARIFICATION with the trigger "ambiguity_detected"
C20_RepeatAmbiguous ==
  (Turn /\ Ambiguous(last.user_input)) =>
    IF last.before.context.state = ASKING_CLARIFICATION
    THEN /\ History = last.before.state_history
         /\ Ctx.previous_state = last.before.context.previous_state
    ELSE /\ OneAppended(last.before.state_history, History)
         /\ Entry(History[Len(History)]) =
              [from_state |-> last.before.context.state,
               to_state |-> ASKING_CLARIFICATION,
               trigger |-> "ambiguity_detected"]

\* C20 witness: an ambiguous turn right after an ambiguous turn, the history
\* still holding the one entry of the first
C20_Witness ==
  /\ Turn
  /\ Ambiguous(last.user_input)
  /\ last.after_ambiguous
  /\ last.before.context.state = ASKING_CLARIFICATION
  /\ Len(History) = 1
  /\ History[1].trigger = "ambiguity_detected"
  /\ Ctx.turn_count = 2

\* the two instances
Instances == <<interface, peer>>

\* an instance without the readings of the clock and the identifier of the
\* conversation, which no two runs have in common
Conversation(itf) ==
  [context |-> [f \in ContextFields \ {"conversation_id", "created_at", "updated_at"} |->
                  itf.state_manager.context[f]],
   state_history |-> [k \in DOMAIN itf.state_manager.state_history |->
                        Entry(itf.state_manager.state_history[k])],
   conversation_history |-> itf.conversation_history]

\* and without the texts drawn from the pools of templates
Undrawn(itf) ==
  [context |-> [f \in DOMAIN Conversation(itf).context \ {"last_agent_response"} |->
                  Conversation(itf).context[f]],
   state_history |-> Conversation(itf).state_history,
   conversation_history |->
     [k \in DOMAIN itf.conversation_history |->
        IF itf.conversation_history[k].role = "user"
        THEN itf.conversation_history[k]
        ELSE [role |-> itf.conversation_history[k].role]]]

\* C18 as stated: after any interleaving of calls on two instances the
\* context, the transition history and the conversation-history mirror of
\* each are what its own calls alone would have left
C18_AsAlone ==
  \A i \in {1, 2} : Conversation(Instances[i]) = Conversation(solo[i].itf)

\* C18 amended: a call on one instance leaves the other instance as it was,
\* and each instance is what its own calls alone would have left except for
\* the texts drawn from the pools of templates (last_agent_response and the
\* entries of the assistant in the mirror), which follow the generator of
\* the random module that the two instances share
C18_AsAloneUpToDraws ==
  /\ \A i \in {1, 2} : Undrawn(Instances[i]) = Undrawn(solo[i].itf)
  /\ last.op \in {"process_input", "reset_conversation"} =>
       Instances[3 - last.instance] = last.before[3 - last.instance]
  /\ \A i \in {1, 2} :
       rng = solo[i].rng => Conversation(Instances[i]) = Conversation(solo[i].itf)

\* C18 witness: the first instance answers its first input after the second
\* has answered one, with another text than it would have drawn alone
C18_Witness ==
  /\ last.op = "process_input"
  /\ last.instance = 1
  /\ interface.state_manager.context.turn_count = 1
  /\ peer.state_manager.context.turn_count = 1
  /\ peer.state_manager.context.state # interface.state_manager.context.state
  /\ last.ret # solo[1].itf.state_manager.context.last_agent_response
  /\ Undrawn(interface) = Undrawn(solo[1].itf)

\* C21: update_state(t, trigger) called in a state s other than t, whatever
\* the two states, returns true, appends (s, t, trigger) as the newest entry
\* of the history and sets previous_state to s and state to t
C21_AnyTransition ==
  (last.op = "update_state_any" /\ last.new_state # last.before.context.state) =>
    /\ last.ret = TRUE
    /\ OneAppended(last.before.state_history, History)
    /\ Entry(History[Len(History)]) =
         [from_state |-> last.before.context.state,
          to_state |-> last.new_state,
          trigger |-> last.trigger]
    /\ Ctx.previous_state = last.before.context.state
    /\ Ctx.state = last.new_state

\* C21 witness: the State Manager taken from INITIAL to CLOSING, from there
\* to ERROR and from there back to INITIAL
C21_Witness ==
  /\ last.op = "update_state_any"
  /\ Len(History) = 3
  /\ Entry(History[1]) = [from_state |-> INITIAL, to_state |-> CLOSING, trigger |-> ""]
  /\ History[2].from_state = CLOSING
  /\ History[2].to_state = ERROR
  /\ History[3].to_state = INITIAL
  /\ Ctx.state = INITIAL
  /\ Ctx.previous_state = ERROR

\* C22: on a turn without detection >= 0.6 and with an llm_response, when
\* response_templates has no pool for the act and the state, the template
\* blended with the llm_response is one of the pool keyed by the act alone,
\* or of the universal pool when the act has none: the pool the same turn
\* without llm_response draws from
C22_FallbackByAct ==
  (/\ Turn
   /\ ~Ambiguous(last.user_input)
   /\ Truthy(last.llm_response)
   /\ <<last.dialogue_act, Ctx.state>> \notin DOMAIN response_templates) =>
    \E i \in DOMAIN TemplatePool(last.dialogue_act, Ctx.state) :
      last.ret = TemplatePool(last.dialogue_act, Ctx.state)[i]
                   \o " " \o last.llm_response[1]

\* the questions generate_clarification_question can give for a detection
\* when it is given a context: a framing followed by a template of the pool
\* of the type of the detection
QuestionsFor(ambiguity) ==
  {contextual_templates[f] \o QuestionPool(ambiguity.type)[t] :
     f \in DOMAIN contextual_templates,
     t \in DOMAIN QuestionPool(ambiguity.type)}

\* C23: on the clarification branch there are min(2, number of detections
\* >= 0.6) questions, the first for a detection of highest confidence and
\* the second for one of highest confidence among the others; one question
\* is returned as it is, two are returned as "I'd like to clarify a few
\* things:" and the lines "1. " and "2. " with the questions; every
\* question and the string returned hold "?"
C23_Questions ==
  (Turn /\ last.high # <<>>) =>
    LET high == last.high
        Highest(i, among) == \A k \in among : high[i].confidence >= high[k].confidence
    IN /\ \E i \in DOMAIN high :
            /\ Highest(i, DOMAIN high)
            /\ IF Min(2, Len(high)) = 1
               THEN last.ret \in QuestionsFor(high[i])
               ELSE \E j \in DOMAIN high \ {i} :
                      /\ Highest(j, DOMAIN high \ {i})
                      /\ \E q1 \in QuestionsFor(high[i]) :
                           LET head == "I'd like to clarify a few things:\n1. "
                                         \o q1 \o "\n2. "
                           IN /\ Len(head) < Len(last.ret)
                              /\ SubSeq(last.ret, 1, Len(head)) = head
                              /\ SubSeq(last.ret, Len(head) + 1, Len(last.ret))
                                   \in QuestionsFor(high[j])
       /\ \A i \in DOMAIN high : \A q \in QuestionsFor(high[i]) : HasChar(q, "?")
       /\ HasChar(last.ret, "?")

\* C23 witness: "Can you help me with this?", which has three detections
\* >= 0.6, was answered with two numbered questions, and another turn with
\* one detection was answered with one question alone
C23_Witness ==
  /\ Turn
  /\ Len(last.high) = 3
  /\ last.high[1].confidence > last.high[2].confidence
  /\ last.high[2].confidence > last.high[3].confidence
  /\ \E q1 \in QuestionsFor(last.high[1]), q2 \in QuestionsFor(last.high[2]) :
       last.ret = "I'd like to clarify a few things:\n1. " \o q1 \o "\n2. " \o q2
  /\ last.after_ambiguous
  /\ Len(interface.conversation_history) = 4
  /\ interface.conversation_history[2].content
       \in QuestionsFor([type |-> ENTITY_AMBIGUITY])

\* C24: after any process_input and reset_conversation calls the mirror of
\* the interface has 2 * turn_count entries, user and assistant in turn;
\* after a process_input call its last two entries are the input of the
\* call as user and the string returned as assistant, and last_user_input
\* and last_agent_response of the context are that input and that string
C24_Mirror ==
  LET h == interface.conversation_history
      n == Len(h)
  IN /\ n = 2 * Ctx.turn_count
     /\ \A i \in DOMAIN h :
          h[i].role = IF i % 2 = 1 THEN "user" ELSE "assistant"
     /\ Turn =>
          /\ n >= 2
          /\ h[n - 1] = [role |-> "user", content |-> last.user_input]
          /\ h[n] = [role |-> "assistant", content |-> last.ret]
          /\ Ctx.last_user_input = last.user_input
          /\ Ctx.last_agent_response = last.ret

\* C24 witness: a turn, a reset, and a turn answered with a clarification
\* question: the mirror holds that turn alone
C24_Witness ==
  /\ Turn
  /\ ops = 3
  /\ uuids = 3
  /\ Ctx.turn_count = 1
  /\ last.high # <<>>
  /\ Len(interface.conversation_history) = 2
  /\ interface.conversation_history[2].content = last.ret

\* the assistant questions of a conversation history, oldest first
AssistantQuestions(conversation_history) ==
  SelectSeq(conversation_history,
            LAMBDA turn : turn.role = "assistant" /\ HasChar(turn.content, "?"))

\* C25: when generate_adaptive_question rephrases, because the history it
\* is given has more than 2 entries and a similar assistant question among
\* its last 4, the question it returns is not the assistant question that
\* comes last in that history; each question returned is appended to the
\* history of the next call
C25_NotRepeated ==
  (last.op = "generate_adaptive_question" /\ last.rephrased) =>
    LET previous == AssistantQuestions(last.before)
    IN previous # <<>> /\ last.ret # previous[Len(previous)].content

\* no caller is inside process_input
Quiescent == \A c \in Callers : callers.th[c].pc = "idle"

\* C26: process_input is not atomic on an instance that callers share: the
\* first update_context writes the turn_count the caller has read plus one,
\* whatever has been written since, so that calls that read the same
\* turn_count count as one; once every call has returned, the mirror has
\* grown by two entries for each call while turn_count is at least 1 and at
\* most the number of calls; with a lock around the call, turn_count is the
\* number of calls and fewer is not reachable
C26_LostUpdate ==
  /\ last.op = "count" => Ctx.turn_count = last.turn_count + 1
  /\ Quiescent =>
       /\ Len(interface.conversation_history) = 2 * calls
       /\ Ctx.turn_count <= calls
       /\ calls > 0 => Ctx.turn_count >= 1
       /\ callers.mutex => Ctx.turn_count = calls

\* C26 witness: without a lock two calls have returned, the mirror has four
\* entries and turn_count is 1
C26_Witness ==
  /\ ~callers.mutex
  /\ Quiescent
  /\ calls = 2
  /\ Len(interface.conversation_history) = 4
  /\ Ctx.turn_count = 1

\* C27: after any process_input and reset_conversation calls the state is
\* INITIAL exactly when turn_count is 0, and the state is never ERROR, not
\* even after a blank input recognized as the act ERROR
C27_InitialAndError ==
  /\ Ctx.state = INITIAL <=> Ctx.turn_count = 0
  /\ Ctx.state # ERROR
  /\ Turn => Ctx.state \notin {INITIAL, ERROR}

\* C27 witness: after a turn and a reset, the blank input, recognized as
\* ERROR, has taken the conversation from INITIAL to IN_PROGRESS
C27_Witness ==
  /\ Turn
  /\ uuids = 3
  /\ last.user_input.toks = <<>>
  /\ last.dialogue_act = ActERROR
  /\ last.before.context.state = INITIAL
  /\ last.before.context.turn_count = 0
  /\ Ctx.state = IN_PROGRESS
  /\ Ctx.turn_count = 1

\* C28: after any process_input and reset_conversation calls every entry of
\* the transition history has a to_state other than its from_state, every
\* entry but the newest has the from_state of the next as its to_state, the
\* newest has the state of the context as its to_state and previous_state
\* as its from_state, and with an empty history state and previous_state
\* are INITIAL
C28_HistoryChain ==
  /\ \A i \in DOMAIN History : History[i].from_state # History[i].to_state
  /\ \A i \in 1..(Len(History) - 1) :
       History[i].to_state = History[i + 1].from_state
  /\ History # <<>> =>
       /\ History[Len(History)].to_state = Ctx.state
       /\ History[Len(History)].from_state = Ctx.previous_state
  /\ History = <<>> => Ctx.state = INITIAL /\ Ctx.previous_state = INITIAL

\* C28 witness: three turns have left three entries, from INITIAL to
\* GREETING, on to ASKING_CLARIFICATION and on to CLOSING
C28_Witness ==
  /\ Turn
  /\ Len(History) = 3
  /\ History[1].from_state = INITIAL
  /\ History[1].to_state = GREETING
  /\ History[2].to_state = ASKING_CLARIFICATION
  /\ History[3].to_state = CLOSING
  /\ Ctx.previous_state = ASKING_CLARIFICATION

\* the strings a turn returns when it takes its template from the pool of
\* response_templates keyed `key`
Selected(key, llm_response) ==
  {_enhance_response(response_templates[key][i], llm_response, Ctx) :
     i \in DOMAIN response_templates[key]}

\* C29: the pool of response_templates is looked up with the act and the
\* state after the transition, so no process_input call takes its template
\* from the pools keyed (GREETING, INITIAL), (QUESTION, IN_PROGRESS),
\* (REQUEST, IN_PROGRESS) or (ERROR, ERROR); a turn that takes it from a
\* pool of response_templates takes it from one of (GREETING, IN_PROGRESS),
\* (CLARIFICATION, ASKING_CLARIFICATION), (CONFIRMATION,
\* SEEKING_CONFIRMATION), (ACKNOWLEDGMENT, IN_PROGRESS), (CLOSING, CLOSING)
C29_PoolsSelected ==
  Turn =>
    LET key == <<last.dialogue_act, Ctx.state>>
    IN /\ \A k \in {<<ActGREETING, INITIAL>>, <<ActQUESTION, IN_PROGRESS>>,
                     <<ActREQUEST, IN_PROGRESS>>, <<ActERROR, ERROR>>} :
            /\ last.high = <<>> => key # k
            /\ last.ret \notin Selected(k, last.llm_response)
       /\ (last.high = <<>> /\ key \in DOMAIN response_templates) =>
            /\ key \in {<<ActGREETING, IN_PROGRESS>>,
                        <<ActCLARIFICATION, ASKING_CLARIFICATION>>,
                        <<ActCONFIRMATION, SEEKING_CONFIRMATION>>,
                        <<ActACKNOWLEDGMENT, IN_PROGRESS>>,
                        <<ActCLOSING, CLOSING>>}
            /\ last.ret \in Selected(key, last.llm_response)

\* C29 witness: "hello" as the first turn, looked up in the state GREETING
\* it leads to, found no pool, and "hello" as the next turn was answered from
\* the pool keyed (GREETING, IN_PROGRESS)
C29_Witness ==
  /\ Turn
  /\ Ctx.turn_count = 2
  /\ last.dialogue_act = ActGREETING
  /\ last.before.context.state = GREETING
  /\ last.before.context.last_agent_response = "Hello! How can I help you today?"
  /\ Ctx.state = IN_PROGRESS
  /\ last.ret \in Selected(<<ActGREETING, IN_PROGRESS>>, None)

\* the string s ends with the string suffix
StrEndsWith(s, suffix) ==
  /\ Len(suffix) <= Len(s)
  /\ SubSeq(s, Len(s) - Len(suffix) + 1, Len(s)) = suffix

\* C30: a call whose input has a detection >= 0.6 gives the same string,
\* the same interface, clock and generator with an llm_response as without
\* one, from every state in which a call can be made; a turn without such a detection and with an
\* llm_response that is not empty returns a string that ends with the
\* llm_response as it was given
C30_LlmResponse ==
  /\ \A user_input \in Corpus :
       (ops < MaxOps /\ Ambiguous(user_input)) =>
         process_input(interface, now, user_input, <<"The weather is sunny.">>, rng)
           = process_input(interface, now, user_input, None, rng)
  /\ (Turn /\ last.high = <<>> /\ Truthy(last.llm_response)) =>
       /\ StrEndsWith(last.ret, last.llm_response[1])
       /\ Len(last.ret) > Len(last.llm_response[1])

\* C30 witness: a first turn without detection answered with a template and
\* the llm_response after it, then a turn with detections and an
\* llm_response, answered with questions that do not end with it
C30_Witness ==
  /\ Turn
  /\ Len(interface.conversation_history) = 4
  /\ StrEndsWith(interface.conversation_history[2].content, " The weather is sunny.")
  /\ last.high # <<>>
  /\ last.llm_response = <<"The weather is sunny.">>
  /\ ~StrEndsWith(last.ret, last.llm_response[1])
  /\ StrEndsWith(last.ret, "?")

====
